---- MODULE Spec2Model ----
(***************************************************************************)
(* Suppression-list store (SuppressionListManager, SQLite on a single      *)
(* connection), the suppression resolver with its cache and the decision   *)
(* orchestrator (EnhancedFalconServer), and the ad server's targeting and  *)
(* weighted selection (AdServer).                                          *)
(*                                                                         *)
(* Every SQL statement is one atomic step; an async method that awaits     *)
(* several statements (createList) is a sequence of steps that other       *)
(* tasks' statements may interleave with, all on the one connection.       *)
(***************************************************************************)
EXTENDS Integers, Sequences, FiniteSets, TLC

\* ------------------------------------------------------------------ bounds
\* longest identifiers array handed to createList
MaxIdentifiers == 2
\* calls that change the store, the cache or the initialization state in one run
MaxCalls == 3
\* times the clock advances in one run, by maxAge each time
MaxTicks == 2
\* rows of a CSV file
MaxRows == 2
\* RateLimiter.check calls made in one behaviour
MaxAsked == 12
\* checks answered from the cache in one behaviour
MaxHits == 2

\* ----------------------------------------------------------------- domains
Advertisers == {"adv_a", "adv_b"}
ListIds == {"L1", "L2"}
IdentifierTypes == {"email_hash", "device_id"}
\* identifier_type values a caller may pass, one of them unrecognized
TypeInputs == IdentifierTypes \cup {"cookie_id"}
\* raw identifier values: a 64 character hex digest, a UUID, a raw e-mail
\* address, a malformed one
Identifiers == {"hex64", "uuid", "user@example.com", "invalid_hash_format"}
\* last_updated values and expiration cut-offs (ISO timestamps, ordered)
Times == {0, 1}
Names == {"n1", "n2"}
NoValue == ""

\* --------------------------------------------------------------- variables
VARIABLES
    foreign_keys,   \* does the SQLite build enforce foreign keys (no PRAGMA is issued)
    lists,          \* table suppression_lists: id -> row
    idents,         \* table suppression_identifiers: identifier_hash -> row
    passed,         \* history: id -> what the last successful createList of that id was handed
    txn,            \* the connection's open transaction (its rollback journal)
    cl,             \* the createList call that is between BEGIN and COMMIT/ROLLBACK
    calls,          \* state-changing calls started so far
    db_open,        \* suppressionManager.db is an open connection
    initialized,    \* EnhancedFalconServer.initialized
    init_pc,        \* where the initialization started by the constructor stands
    cache,          \* EnhancedFalconServer.cache: cache key -> entry
    now,            \* Date.now(), in milliseconds since the server was constructed
    stats,          \* EnhancedFalconServer.stats
    cacheHits,      \* EnhancedFalconServer.cacheHits
    cacheMisses,    \* EnhancedFalconServer.cacheMisses
    localStorage,   \* the global the RateLimiter keeps its counts in, if there is one
    asked,          \* history: <<advertiser, operation, minute>> -> RateLimiter.check calls made
    resp            \* what the last step returned to its caller

vars == <<foreign_keys, lists, idents, passed, txn, cl, calls,
          db_open, initialized, init_pc, cache, now, stats, cacheHits, cacheMisses,
          localStorage, asked, resp>>
serverVars == <<db_open, initialized, init_pc, cache, now, stats, cacheHits, cacheMisses,
                localStorage, asked>>

Empty == <<>>
NoTxn == [active |-> FALSE, lists |-> Empty, idents |-> Empty, passed |-> Empty]
Idle == [pc |-> "idle"]
Nothing == [op |-> "none"]

\* f without the keys in S
Without(f, S) == [k \in DOMAIN f \ S |-> f[k]]

\* ------------------------------------------------- SuppressionListManager
\* The text of an identifier, as runs of characters of one class: "hex" is
\* a-f and 0-9, "HEX" is A-F, "alpha" is g-z, "ALPHA" is G-Z, "_" is any other
\* character; the words iosdevice- and IOSDEVICE- are kept as they are spelled.
Run(c, n) == [c |-> c, n |-> n]
Text ==
    [hex64 |-> <<Run("hex", 64)>>,
     uuid |-> <<Run("hex", 8), Run("-", 1), Run("hex", 4), Run("-", 1), Run("hex", 4),
                Run("-", 1), Run("hex", 4), Run("-", 1), Run("hex", 12)>>,
     invalid_hash_format |->
         <<Run("alpha", 3), Run("hex", 1), Run("alpha", 2), Run("hex", 1), Run("_", 1),
           Run("alpha", 1), Run("hex", 1), Run("alpha", 2), Run("_", 1), Run("hex", 1),
           Run("alpha", 3), Run("hex", 1), Run("alpha", 1)>>,
     hex49 |-> <<Run("hex", 49)>>,
     hex50 |-> <<Run("hex", 50)>>,
     hex70 |-> <<Run("hex", 70)>>,
     hex71 |-> <<Run("hex", 71)>>,
     HEX64 |-> <<Run("HEX", 64)>>,
     alnum64 |-> <<Run("hex", 32), Run("ALPHA", 16), Run("alpha", 16)>>,
     hex63_ |-> <<Run("hex", 63), Run("_", 1)>>,
     UUID |-> <<Run("HEX", 8), Run("-", 1), Run("HEX", 4), Run("-", 1), Run("HEX", 4),
                Run("-", 1), Run("HEX", 4), Run("-", 1), Run("HEX", 12)>>]
    @@ ("" :> <<>>)
    @@ ("user@example.com" :>
           <<Run("alpha", 2), Run("hex", 1), Run("alpha", 1), Run("@", 1), Run("hex", 1),
             Run("alpha", 1), Run("hex", 1), Run("alpha", 3), Run("hex", 1), Run(".", 1),
             Run("hex", 1), Run("alpha", 2)>>)
    @@ ("abc-123" :> <<Run("hex", 3), Run("-", 1), Run("hex", 3)>>)
    @@ ("xyz-123" :> <<Run("alpha", 3), Run("-", 1), Run("hex", 3)>>)
    @@ ("-" :> <<Run("-", 1)>>)
    @@ ("iosdevice-1a2b" :> <<Run("iosdevice-", 1), Run("hex", 4)>>)
    @@ ("IOSDEVICE-1A2B" :> <<Run("IOSDEVICE-", 1), Run("HEX", 4)>>)
    @@ ("iosdevice-" :> <<Run("iosdevice-", 1)>>)
    @@ ("iosdevice-xyz" :> <<Run("iosdevice-", 1), Run("alpha", 3)>>)
    @@ ("a@b.c" :> <<Run("hex", 1), Run("@", 1), Run("hex", 1), Run(".", 1), Run("hex", 1)>>)
    @@ ("a@b" :> <<Run("hex", 1), Run("@", 1), Run("hex", 1)>>)
    @@ ("@b.c" :> <<Run("@", 1), Run("hex", 1), Run(".", 1), Run("hex", 1)>>)
    @@ ("a@b." :> <<Run("hex", 1), Run("@", 1), Run("hex", 1), Run(".", 1)>>)
    @@ ("a@.c" :> <<Run("hex", 1), Run("@", 1), Run(".", 1), Run("hex", 1)>>)
    @@ ("a.b@c" :> <<Run("hex", 1), Run(".", 1), Run("hex", 1), Run("@", 1), Run("hex", 1)>>)
    @@ ("a@b@c.d" :> <<Run("hex", 1), Run("@", 1), Run("hex", 1), Run("@", 1), Run("hex", 1),
                       Run(".", 1), Run("hex", 1)>>)
    @@ ("a@b..c" :> <<Run("hex", 1), Run("@", 1), Run("hex", 1), Run(".", 2), Run("hex", 1)>>)

\* the character classes of the word iosdevice-, in either case
Spelled(word) ==
    IF word = "iosdevice-"
    THEN <<"alpha", "alpha", "alpha", "hex", "hex", "alpha", "alpha", "hex", "hex", "-">>
    ELSE <<"ALPHA", "ALPHA", "ALPHA", "HEX", "HEX", "ALPHA", "ALPHA", "HEX", "HEX", "-">>

\* the classes of the characters of a text, one by one
RECURSIVE Chars(_)
Chars(text) ==
    IF text = <<>> THEN <<>>
    ELSE (IF Head(text).c \in {"iosdevice-", "IOSDEVICE-"}
          THEN Spelled(Head(text).c)
          ELSE [i \in 1..Head(text).n |-> Head(text).c]) \o Chars(Tail(text))

\* a text whose characters all belong to some classes
Only(chars, classes) == \A i \in 1..Len(chars) : chars[i] \in classes

\* /^[a-f0-9]{50,70}$/i or /^[a-z0-9]{50,70}$/i
IsHashShape(identifier) ==
    LET chars == Chars(Text[identifier])
    IN  /\ Len(chars) >= 50
        /\ Len(chars) <= 70
        /\ \/ Only(chars, {"hex", "HEX"})
           \/ Only(chars, {"hex", "HEX", "alpha", "ALPHA"})
\* /^[^@]+@[^@]+\.[^@]+$/
looksLikeRawEmail(identifier) ==
    LET chars == Chars(Text[identifier])
        ats == {i \in 1..Len(chars) : chars[i] = "@"}
    IN  /\ Cardinality(ats) = 1
        /\ \E at \in ats :
              /\ at > 1
              /\ \E dot \in (at + 2)..(Len(chars) - 1) : chars[dot] = "."
\* /^[a-f0-9-]+$/i, /^iosdevice-[a-f0-9-]+$/i or the UUID pattern
IsDeviceShape(identifier) ==
    LET text == Text[identifier]
        chars == Chars(text)
    IN  \/ Len(chars) >= 1 /\ Only(chars, {"hex", "HEX", "-"})
        \/ /\ text # <<>>
           /\ Head(text).c \in {"iosdevice-", "IOSDEVICE-"}
           /\ Tail(text) # <<>>
           /\ Only(Chars(Tail(text)), {"hex", "HEX", "-"})
        \/ /\ Len(chars) = 36
           /\ \A i \in 1..Len(chars) :
                 IF i \in {9, 14, 19, 24} THEN chars[i] = "-" ELSE chars[i] \in {"hex", "HEX"}

\* validation that takes any 50 to 70 characters for a hash
AcceptedAnyLongText ==
    [identifierType \in IdentifierTypes |->
        {identifier \in DOMAIN Text :
            IF identifierType = "email_hash"
            THEN \/ looksLikeRawEmail(identifier)
                 \/ Len(Chars(Text[identifier])) \in 50..70
            ELSE IsDeviceShape(identifier)}]

\* the identifiers each recognized type accepts (the tests of lines 274-293)
Accepted ==
    [identifierType \in IdentifierTypes |->
        {identifier \in DOMAIN Text :
            IF identifierType = "email_hash"
            THEN looksLikeRawEmail(identifier) \/ IsHashShape(identifier)
            ELSE IsDeviceShape(identifier)}]

IdentifierValid(identifier, identifierType) ==
    identifierType \in IdentifierTypes => identifier \in Accepted[identifierType]

validateIdentifiers(identifiers, identifierType) ==
    \A i \in 1..Len(identifiers) : IdentifierValid(identifiers[i], identifierType)

\* what createList throws before its BEGIN (lines 87-92): the error of the
\* type check, or the error validateIdentifiers throws at the first identifier
\* it does not accept
NoError == <<>>
createListError(identifiers, identifierType) ==
    IF identifierType \notin IdentifierTypes
    THEN <<"Invalid identifier type", identifierType>>
    ELSE IF validateIdentifiers(identifiers, identifierType)
    THEN NoError
    ELSE LET first == CHOOSE i \in 1..Len(identifiers) :
                         /\ ~IdentifierValid(identifiers[i], identifierType)
                         /\ \A j \in 1..(i - 1) : IdentifierValid(identifiers[j], identifierType)
         IN  <<IF identifierType = "email_hash" THEN "Invalid email_hash format"
               ELSE "Invalid device_id format", identifiers[first]>>

\* sha256 of the raw identifier alone; the type and the list are not hashed
hashIdentifier(identifier) == <<"sha256", identifier>>

\* SELECT identifier FROM suppression_identifiers WHERE list_id = ?
IdentifiersOf(is, listId) ==
    {is[h].identifier : h \in {x \in DOMAIN is : is[x].list_id = listId}}

GetListOn(ls, is, listId) ==
    IF listId \in DOMAIN ls
    THEN [found |-> TRUE, row |-> ls[listId], identifiers |-> IdentifiersOf(is, listId)]
    ELSE [found |-> FALSE]

\* SELECT DISTINCT si.advertiser_id, sl.name ... JOIN ... WHERE si.identifier = ?
\* AND si.identifier_type = ? AND sl.is_active = 1
LookupRows(ls, is, identifier, identifierType) ==
    {[advertiser_id |-> is[h].advertiser_id, list_name |-> ls[is[h].list_id].name] :
        h \in {x \in DOMAIN is : /\ is[x].identifier = identifier
                                 /\ is[x].identifier_type = identifierType
                                 /\ is[x].list_id \in DOMAIN ls
                                 /\ ls[is[x].list_id].is_active}}

findAdvertisersForIdentifierOn(ls, is, identifier, identifierType) ==
    LET rows == LookupRows(ls, is, identifier, identifierType)
    IN  [suppressed |-> {r.advertiser_id : r \in rows},
         listsChecked |-> Cardinality(rows)]

\* INSERT OR REPLACE: a stored identifier is overwritten by the later insert
InsertOrReplace(is, identifier, identifierType, listId, advertiserId) ==
    LET h == hashIdentifier(identifier)
    IN  [x \in DOMAIN is \cup {h} |->
            IF x = h
            THEN [identifier |-> identifier, identifier_type |-> identifierType,
                  list_id |-> listId, advertiser_id |-> advertiserId]
            ELSE is[x]]

\* INSERT OR IGNORE INTO suppression_identifiers: identifier_hash is the PRIMARY KEY
InsertOrIgnore(is, identifier, identifierType, listId, advertiserId) ==
    LET h == hashIdentifier(identifier)
    IN  IF h \in DOMAIN is
        THEN is
        ELSE is @@ (h :> [identifier |-> identifier, identifier_type |-> identifierType,
                          list_id |-> listId, advertiser_id |-> advertiserId])

\* ON DELETE CASCADE, applied only by a build that enforces foreign keys
CascadeDelete(is, listId, enforce) ==
    IF enforce
    THEN Without(is, {h \in DOMAIN is : is[h].list_id = listId})
    ELSE is

\* the catch block without its ROLLBACK: the rows written so far stay
RolledBackNot(current, saved) == current

\* ROLLBACK: the tables go back to what they were at BEGIN
RolledBack(current, saved) == saved

IdentifierArrays == UNION {[1..n -> Identifiers] : n \in 0..MaxIdentifiers}
ListInputs ==
    [id : ListIds, advertiser_id : Advertisers, identifier_type : IdentifierTypes,
     last_updated : {0}, identifiers : IdentifierArrays]
    \cup [id : {"L1"}, advertiser_id : {"adv_a"}, identifier_type : {"cookie_id"},
          last_updated : {0}, identifiers : {<<"hex64">>}]
    \cup [id : {"L2"}, advertiser_id : {"adv_b"}, identifier_type : {"device_id"},
          last_updated : {1}, identifiers : {<<"uuid">>}]

\* createList up to its BEGIN TRANSACTION (lines 72-96)
CreateListCall(listData) ==
    /\ IF \/ listData.identifier_type \notin IdentifierTypes
          \/ ~validateIdentifiers(listData.identifiers, listData.identifier_type)
          \/ txn.active     \* "cannot start a transaction within a transaction"
       THEN /\ resp' = [op |-> "createList", id |-> listData.id, ok |-> FALSE,
                        stage |-> IF listData.identifier_type \notin IdentifierTypes
                                  THEN "type"
                                  ELSE IF ~validateIdentifiers(listData.identifiers,
                                                               listData.identifier_type)
                                       THEN "validate" ELSE "begin",
                        error |-> IF createListError(listData.identifiers,
                                                     listData.identifier_type) # NoError
                                  THEN createListError(listData.identifiers,
                                                       listData.identifier_type)
                                  ELSE <<"cannot start a transaction within a transaction">>]
            /\ UNCHANGED <<txn, cl, calls>>
       ELSE /\ calls < MaxCalls
            /\ calls' = calls + 1
            /\ txn' = [active |-> TRUE, lists |-> lists, idents |-> idents,
                       passed |-> passed]
            /\ cl' = [pc |-> "insert_list", data |-> listData, k |-> 1]
            /\ resp' = Nothing
    /\ UNCHANGED <<foreign_keys, lists, idents, passed>>

\* INSERT INTO suppression_lists (lines 99-104); a taken id violates the PRIMARY KEY
CreateListInsertList ==
    /\ cl.pc = "insert_list"
    /\ IF cl.data.id \in DOMAIN lists
       THEN /\ cl' = [pc |-> "rollback", data |-> cl.data, k |-> cl.k,
                       error |-> "UNIQUE constraint failed: suppression_lists.id"]
            /\ UNCHANGED lists
       ELSE /\ lists' = lists @@ (cl.data.id :>
                    [advertiser_id |-> cl.data.advertiser_id, name |-> "n1",
                     description |-> "d1",
                     identifier_type |-> cl.data.identifier_type,
                     last_updated |-> cl.data.last_updated,
                     size |-> Len(cl.data.identifiers), is_active |-> TRUE])
            /\ cl' = [cl EXCEPT !.pc = IF Len(cl.data.identifiers) > 0
                                       THEN "insert_ids" ELSE "commit"]
    /\ resp' = Nothing
    /\ UNCHANGED <<foreign_keys, idents, passed, txn, calls>>

\* one stmt.run of the identifier loop (lines 114-117); the statement may fail,
\* and does when foreign keys are enforced and the list row is gone
CreateListInsertIdentifier(fails) ==
    /\ cl.pc = "insert_ids"
    /\ IF fails \/ (foreign_keys /\ cl.data.id \notin DOMAIN lists)
       THEN /\ cl' = [pc |-> "rollback", data |-> cl.data, k |-> cl.k,
                       error |-> IF fails THEN "SQLITE_ERROR"
                                 ELSE "FOREIGN KEY constraint failed"]
            /\ UNCHANGED idents
       ELSE /\ idents' = InsertOrIgnore(idents, cl.data.identifiers[cl.k],
                                        cl.data.identifier_type, cl.data.id,
                                        cl.data.advertiser_id)
            /\ cl' = [cl EXCEPT !.k = cl.k + 1,
                                !.pc = IF cl.k = Len(cl.data.identifiers)
                                       THEN "commit" ELSE "insert_ids"]
    /\ resp' = Nothing
    /\ UNCHANGED <<foreign_keys, lists, passed, txn, calls>>

\* COMMIT and the closing getList (lines 121-124)
CreateListCommit ==
    /\ cl.pc = "commit"
    /\ txn' = NoTxn
    /\ passed' = [l \in DOMAIN passed \cup {cl.data.id} |->
                    IF l = cl.data.id
                    THEN [advertiser_id |-> cl.data.advertiser_id,
                          identifier_type |-> cl.data.identifier_type,
                          identifiers |-> {cl.data.identifiers[i] :
                                              i \in 1..Len(cl.data.identifiers)}]
                    ELSE passed[l]]
    /\ resp' = [op |-> "createList", id |-> cl.data.id, ok |-> TRUE,
                list |-> GetListOn(lists, idents, cl.data.id)]
    /\ cl' = Idle
    /\ UNCHANGED <<foreign_keys, lists, idents, calls>>

\* the catch block: ROLLBACK, then rethrow (lines 125-128)
CreateListRollback ==
    /\ cl.pc = "rollback"
    /\ lists' = RolledBack(lists, txn.lists)
    /\ idents' = RolledBack(idents, txn.idents)
    /\ passed' = txn.passed
    /\ txn' = NoTxn
    /\ resp' = [op |-> "createList", id |-> cl.data.id, ok |-> FALSE,
                stage |-> "rollback", inserted |-> cl.k - 1, error |-> cl.error]
    /\ cl' = Idle
    /\ UNCHANGED <<foreign_keys, calls>>

getList(listId) ==
    /\ resp' = [op |-> "getList", id |-> listId,
                list |-> GetListOn(lists, idents, listId)]
    /\ UNCHANGED <<foreign_keys, lists, idents, passed, txn, cl, calls>>

\* an allow-list that also lets the owner of a list be rewritten
allowedFieldsWithOwner == {"name", "description", "last_updated", "advertiser_id"}

allowedFields == {"name", "description", "last_updated"}
\* update objects; NoValue and -1 stand for an absent key
UpdateInputs ==
    {[name |-> "n2", description |-> NoValue, last_updated |-> 1, advertiser_id |-> NoValue],
     [name |-> NoValue, description |-> "d2", last_updated |-> -1, advertiser_id |-> NoValue],
     [name |-> NoValue, description |-> NoValue, last_updated |-> -1, advertiser_id |-> "adv_b"],
     [name |-> "n2", description |-> NoValue, last_updated |-> -1, advertiser_id |-> "adv_b"]}
\* the allowed keys an update object has
SuppliedAllowed(u) ==
    {f \in allowedFields : IF f = "last_updated" THEN u[f] # -1 ELSE u[f] # NoValue}

updateList(listId, updates) ==
    /\ calls < MaxCalls
    /\ calls' = calls + 1
    /\ IF SuppliedAllowed(updates) = {}
       THEN /\ resp' = [op |-> "updateList", id |-> listId, updates |-> updates,
                        ok |-> FALSE]
            /\ UNCHANGED lists
       ELSE \* UPDATE suppression_lists SET <the allowed keys supplied> WHERE id = ?
            /\ lists' = [l \in DOMAIN lists |->
                    IF l = listId
                    THEN [f \in DOMAIN lists[l] |->
                            IF f \in SuppliedAllowed(updates)
                            THEN updates[f] ELSE lists[l][f]]
                    ELSE lists[l]]
            /\ resp' = [op |-> "updateList", id |-> listId, updates |-> updates,
                        ok |-> TRUE, list |-> GetListOn(lists', idents, listId)]
    /\ UNCHANGED <<foreign_keys, idents, passed, txn, cl>>

\* the options of getListsByAdvertiser; NoValue stands for no identifier_type
ListOptions == [identifier_type : {NoValue} \cup IdentifierTypes, active_only : BOOLEAN]

\* the rows of SELECT * FROM suppression_lists WHERE advertiser_id = ? [AND ...]
SelectedLists(advertiserId, options) ==
    {l \in DOMAIN lists :
        /\ lists[l].advertiser_id = advertiserId
        /\ options.active_only => lists[l].is_active
        /\ options.identifier_type # NoValue =>
               lists[l].identifier_type = options.identifier_type}

\* ORDER BY last_updated DESC leaves the order of equal timestamps open
getListsByAdvertiser(advertiserId, options) ==
    /\ \E order \in [1..Cardinality(SelectedLists(advertiserId, options)) ->
                        SelectedLists(advertiserId, options)] :
          /\ \A i, j \in DOMAIN order :
                i < j => /\ order[i] # order[j]
                         /\ lists[order[i]].last_updated >= lists[order[j]].last_updated
          /\ resp' = [op |-> "getListsByAdvertiser", advertiserId |-> advertiserId,
                      options |-> options,
                      lists |-> [i \in DOMAIN order |->
                                    [id |-> order[i], row |-> lists[order[i]],
                                     identifiers |-> IdentifiersOf(idents, order[i])]]]
    /\ UNCHANGED <<foreign_keys, lists, idents, passed, txn, cl, calls>>

deleteList(listId) ==
    /\ calls < MaxCalls
    /\ calls' = calls + 1
    /\ lists' = Without(lists, {listId})
    /\ idents' = IF listId \in DOMAIN lists
                 THEN CascadeDelete(idents, listId, foreign_keys)
                 ELSE idents
    /\ resp' = [op |-> "deleteList", id |-> listId, result |-> listId \in DOMAIN lists]
    /\ UNCHANGED <<foreign_keys, passed, txn, cl>>

\* UPDATE suppression_lists SET is_active = 0 WHERE last_updated < ? AND is_active = 1
\* the cutoff dates: new Date() moved back by retentionDays
Cutoffs == Times \cup {2}

\* the WHERE clause without its AND is_active = 1
ExpiredListsInactiveToo(ls, cutoff) ==
    {l \in DOMAIN ls : ls[l].last_updated < cutoff}

\* WHERE last_updated < ? AND is_active = 1; both sides are ISO strings of
\* one layout, which compare as the instants they denote
ExpiredLists(ls, cutoff) ==
    {l \in DOMAIN ls : ls[l].last_updated < cutoff /\ ls[l].is_active}

getExpiredLists(cutoff) ==
    /\ resp' = [op |-> "getExpiredLists", cutoff |-> cutoff,
                rows |-> {[id |-> l, name |-> lists[l].name,
                           advertiser_id |-> lists[l].advertiser_id,
                           last_updated |-> lists[l].last_updated] :
                          l \in ExpiredLists(lists, cutoff)}]
    /\ UNCHANGED <<foreign_keys, lists, idents, passed, txn, cl, calls>>

applyExpirationPolicy(cutoff) ==
    LET expired == ExpiredLists(lists, cutoff)
    IN  /\ calls < MaxCalls
        /\ calls' = calls + 1
        /\ lists' = [l \in DOMAIN lists |->
                        IF l \in expired THEN [lists[l] EXCEPT !.is_active = FALSE]
                        ELSE lists[l]]
        /\ resp' = [op |-> "applyExpirationPolicy", cutoff |-> cutoff,
                    changes |-> Cardinality(expired)]
        /\ UNCHANGED <<foreign_keys, idents, passed, txn, cl>>

\* the server's lookup; it throws when the manager has no open connection
findAdvertisersForIdentifier(identifier, identifierType) ==
    /\ resp' = IF ~db_open
               THEN [op |-> "findAdvertisersForIdentifier", threw |-> TRUE]
               ELSE [op |-> "findAdvertisersForIdentifier", threw |-> FALSE,
                     identifier |-> identifier, identifier_type |-> identifierType,
                     result |-> findAdvertisersForIdentifierOn(lists, idents, identifier,
                                                               identifierType)]
    /\ UNCHANGED <<foreign_keys, lists, idents, passed, txn, cl, calls>>

\* ------------------------------------------------ SuppressionListImporter
\* toLowerCase on a text
Lower(text) ==
    [i \in 1..Len(text) |->
        Run(CASE text[i].c = "HEX" -> "hex"
              [] text[i].c = "ALPHA" -> "alpha"
              [] text[i].c = "IOSDEVICE-" -> "iosdevice-"
              [] OTHER -> text[i].c,
            text[i].n)]

\* normalizeIdentifier: the characters of the normalized form.  A run of a
\* class and a length stands for one fixed string, so equal characters mean
\* equal strings.
normalizeIdentifier(identifier, identifierType) ==
    IF identifierType = "email_hash"
    THEN Chars(Lower(Text[identifier]))
    ELSE IF identifierType = "device_id"
    THEN SelectSeq(Chars(Lower(Text[identifier])), LAMBDA c : c \in {"hex", "-"})
    ELSE Chars(Text[identifier])

\* deduplicateIdentifiers: the first occurrence of every normalized form
RECURSIVE deduplicateIdentifiers(_, _)
deduplicateIdentifiers(identifiers, identifierType) ==
    IF identifiers = <<>> THEN <<>>
    ELSE LET front == deduplicateIdentifiers(SubSeq(identifiers, 1, Len(identifiers) - 1),
                                             identifierType)
             last == identifiers[Len(identifiers)]
         IN  IF \E i \in 1..Len(front) :
                   normalizeIdentifier(front[i], identifierType)
                       = normalizeIdentifier(last, identifierType)
             THEN front
             ELSE Append(front, last)

\* the importer's validateIdentifier: /^[a-f0-9]{64}$/i and /^[a-f0-9-]+$/i
validateIdentifier(identifier, identifierType) ==
    LET chars == Chars(Text[identifier])
    IN  IF identifierType = "email_hash"
        THEN Len(chars) = 64 /\ Only(chars, {"hex", "HEX"})
        ELSE IF identifierType = "device_id"
        THEN Len(chars) >= 1 /\ Only(chars, {"hex", "HEX", "-"})
        ELSE TRUE

\* the key of the group a row belongs to: advertiser_id, list_name, identifier_type
ListKey(row) == <<row.advertiser_id, row.list_name, row.identifier_type>>

\* the values of a sequence in the order of their first occurrence (a Map's
\* keys, a Set's members)
RECURSIVE InsertionOrder(_)
InsertionOrder(values) ==
    IF values = <<>> THEN <<>>
    ELSE LET front == InsertionOrder(SubSeq(values, 1, Len(values) - 1))
             last == values[Len(values)]
         IN  IF \E i \in 1..Len(front) : front[i] = last THEN front ELSE Append(front, last)

\* listsMap when the stream ends: a group for every key seen, holding the
\* identifiers of the rows of the key that did not throw
Grouped(rows, validate) ==
    LET keys == InsertionOrder([i \in 1..Len(rows) |-> ListKey(rows[i])])
        kept(key) == SelectSeq(rows, LAMBDA row :
                         /\ ListKey(row) = key
                         /\ validate => validateIdentifier(row.identifier, row.identifier_type))
    IN  [g \in 1..Len(keys) |->
            [advertiser_id |-> keys[g][1], name |-> keys[g][2],
             identifier_type |-> keys[g][3],
             identifiers |-> InsertionOrder([i \in 1..Len(kept(keys[g])) |->
                                                kept(keys[g])[i].identifier])]]

\* flush (lines 72-84): the deduplicated array is stored in listData, and
\* createList gets {...listData, identifiers} with the array taken from the Set
FlushArguments(groups, deduplicate) == groups

\* crypto.randomUUID(): the ids createList gives the lists of an import
GeneratedIds == <<"U1", "U2", "U3", "U4">>

\* the createList calls of flush, one after the other, on a store; the first
\* one that throws rejects the import and the lists created before it stay
RECURSIVE CreateAll(_, _)
CreateAll(arguments, store) ==
    IF arguments = <<>> THEN [store EXCEPT !.ok = TRUE]
    ELSE LET listData == Head(arguments)
             id == GeneratedIds[Cardinality(DOMAIN store.lists) + 1]
             insert[k \in 0..Len(listData.identifiers)] ==
                 IF k = 0 THEN store.idents
                 ELSE InsertOrIgnore(insert[k - 1], listData.identifiers[k],
                                     listData.identifier_type, id, listData.advertiser_id)
         IN  IF createListError(listData.identifiers, listData.identifier_type) # NoError
             THEN [store EXCEPT !.ok = FALSE]
             ELSE CreateAll(Tail(arguments),
                      [lists |-> store.lists @@ (id :>
                            [advertiser_id |-> listData.advertiser_id, name |-> listData.name,
                             description |-> "d1",
                             identifier_type |-> listData.identifier_type,
                             last_updated |-> 0,
                             size |-> Len(listData.identifiers), is_active |-> TRUE]),
                       idents |-> insert[Len(listData.identifiers)],
                       passed |-> store.passed @@ (id :>
                            [advertiser_id |-> listData.advertiser_id,
                             identifier_type |-> listData.identifier_type,
                             identifiers |-> {listData.identifiers[i] :
                                                 i \in 1..Len(listData.identifiers)}]),
                       created |-> Append(store.created, id),
                       ok |-> FALSE])

\* the rows of a CSV file: one advertiser, one list name, both types
CsvRows ==
    [advertiser_id : {"adv_a"}, list_name : {"n1"}, identifier_type : IdentifierTypes,
     identifier : {"hex64", "HEX64", "invalid_hash_format"}]
CsvFiles == UNION {[1..n -> CsvRows] : n \in 0..MaxRows}

\* importFromCSV, awaited by the one caller of the manager
importFromCSV(rows, deduplicate, validate) ==
    LET arguments == FlushArguments(Grouped(rows, validate), deduplicate)
        out == CreateAll(arguments, [lists |-> lists, idents |-> idents, passed |-> passed,
                                     created |-> <<>>, ok |-> FALSE])
    IN  /\ Cardinality(DOMAIN lists) + Len(arguments) <= Len(GeneratedIds)
        /\ calls < MaxCalls
        /\ calls' = calls + 1
        /\ lists' = out.lists
        /\ idents' = out.idents
        /\ passed' = out.passed
        /\ resp' = [op |-> "importFromCSV", rows |-> rows, deduplicate |-> deduplicate,
                    validate |-> validate, ok |-> out.ok, created |-> out.created]
        /\ UNCHANGED <<foreign_keys, txn, cl>>

\* ------------------------------------------------------------------ AdServer
\* Banner objects as indexBanners builds them; bn_a_open omits the exclude rule
Banners ==
    [bn_a_rule |-> [id |-> "bn_a_rule", advertiserId |-> "adv_a", creativeUrl |-> "cr_a_rule",
                    landingPage |-> "lp_a_rule", weight |-> 1,
                    includeParams |-> Empty,
                    excludeParams |-> [suppress_advertisers |-> "adv_a"]],
     bn_a_open |-> [id |-> "bn_a_open", advertiserId |-> "adv_a", creativeUrl |-> "cr_a_open",
                    landingPage |-> "lp_a_open", weight |-> 2,
                    includeParams |-> Empty, excludeParams |-> Empty],
     bn_b_rule |-> [id |-> "bn_b_rule", advertiserId |-> "adv_b", creativeUrl |-> "cr_b_rule",
                    landingPage |-> "lp_b_rule", weight |-> 1,
                    includeParams |-> Empty,
                    excludeParams |-> [suppress_advertisers |-> "adv_b"]],
     bn_b_seg  |-> [id |-> "bn_b_seg", advertiserId |-> "adv_b", creativeUrl |-> "cr_b_seg",
                    landingPage |-> "lp_b_seg", weight |-> 1,
                    includeParams |-> [user_segment |-> "tech_enthusiast"],
                    excludeParams |-> Empty]]

\* the placements of the config with their allowed_banners; pl_ghost names a
\* banner no advertiser has
placements ==
    [pl_none  |-> <<>>,
     pl_a     |-> <<"bn_a_open">>,
     pl_rule  |-> <<"bn_a_rule">>,
     pl_mix   |-> <<"bn_a_open", "bn_missing", "bn_b_rule", "bn_b_seg">>,
     pl_ghost |-> <<"bn_missing">>]

\* placementBannerCache: placement id -> its allowed banners that exist, in order
buildPlacementCache ==
    [placementId \in DOMAIN placements |->
        LET known == SelectSeq(placements[placementId], LAMBDA bannerId : bannerId \in DOMAIN Banners)
        IN  [i \in 1..Len(known) |-> Banners[known[i]]]]
placementBannerCache == buildPlacementCache
Placements == DOMAIN placementBannerCache

\* a custom parameter value is a scalar or an array
Scalar(v) == [array |-> FALSE, val |-> v]
Array(S) == [array |-> TRUE, val |-> S]

\* the parameter keys, in the order Object.entries lists them
ParamKeys == <<"user_segment", "suppress_advertisers">>

\* the first key, in that order, among the keys at which a loop returns
FirstKey(keys) ==
    LET hits == {i \in 1..Len(ParamKeys) : ParamKeys[i] \in keys}
    IN  IF hits = {} THEN NoValue
        ELSE ParamKeys[CHOOSE i \in hits : \A j \in hits : i <= j]

\* an include rule that lets an absent request parameter pass
checkTargetingRulesAbsentPasses(banner, customParams) ==
    LET includeFailed ==
            FirstKey({k \in DOMAIN banner.includeParams :
                         /\ k \in DOMAIN customParams
                         /\ \/ customParams[k].array
                            \/ customParams[k].val # banner.includeParams[k]})
        excludeMatched ==
            FirstKey({k \in DOMAIN banner.excludeParams :
                         /\ k \in DOMAIN customParams
                         /\ IF customParams[k].array
                            THEN banner.excludeParams[k] \in customParams[k].val
                            ELSE customParams[k].val = banner.excludeParams[k]})
    IN  IF includeFailed # NoValue
        THEN [isEligible |-> FALSE, reason |-> <<"Include rule failed", includeFailed>>]
        ELSE IF excludeMatched # NoValue
        THEN [isEligible |-> FALSE,
              reason |-> <<"Exclude rule matched", excludeMatched,
                           IF customParams[excludeMatched].array THEN "contains" ELSE "=">>]
        ELSE [isEligible |-> TRUE, reason |-> <<"Targeting rules passed">>]

\* include rules: ALL must match (!==); exclude rules: NONE must match.
\* Returns [isEligible, reason]; the loops return at the first rule that fails.
checkTargetingRules(banner, customParams) ==
    LET includeFailed ==
            FirstKey({k \in DOMAIN banner.includeParams :
                         \/ k \notin DOMAIN customParams
                         \/ customParams[k].array
                         \/ customParams[k].val # banner.includeParams[k]})
        excludeMatched ==
            FirstKey({k \in DOMAIN banner.excludeParams :
                         /\ k \in DOMAIN customParams
                         /\ IF customParams[k].array
                            THEN banner.excludeParams[k] \in customParams[k].val
                            ELSE customParams[k].val = banner.excludeParams[k]})
    IN  IF includeFailed # NoValue
        THEN [isEligible |-> FALSE, reason |-> <<"Include rule failed", includeFailed>>]
        ELSE IF excludeMatched # NoValue
        THEN [isEligible |-> FALSE,
              reason |-> <<"Exclude rule matched", excludeMatched,
                           IF customParams[excludeMatched].array THEN "contains" ELSE "=">>]
        ELSE [isEligible |-> TRUE, reason |-> <<"Targeting rules passed">>]

RECURSIVE SumWeights(_)
SumWeights(banners) ==
    IF banners = <<>> THEN 0 ELSE Head(banners).weight + SumWeights(Tail(banners))

\* index of the first banner whose cumulative weight reaches the target
RECURSIVE FirstReaching(_, _, _, _)
FirstReaching(banners, target, currentWeight, i) ==
    IF i > Len(banners) THEN Len(banners)
    ELSE IF currentWeight + banners[i].weight >= target THEN i
    ELSE FirstReaching(banners, target, currentWeight + banners[i].weight, i + 1)

\* The draws Math.random() can give for a pool.  Positive total weight: 0 is the
\* target 0.0 and k >= 1 stands for every target in (k-1, k], which all walk
\* the integer weights alike.  Zero total weight: the index drawn, from 1.
Draws(eligibleBanners) ==
    IF SumWeights(eligibleBanners) = 0
    THEN 1..Len(eligibleBanners)
    ELSE 0..SumWeights(eligibleBanners)

\* what selectBannerWeighted returns for an empty pool
Null == [null |-> TRUE]

\* the selection without the uniform branch for a total weight of zero
selectBannerWeightedNoUniform(eligibleBanners, draw) ==
    IF Len(eligibleBanners) = 0 \/ SumWeights(eligibleBanners) = 0
    THEN Null
    ELSE eligibleBanners[FirstReaching(eligibleBanners, draw, 0, 1)]

selectBannerWeighted(eligibleBanners, draw) ==
    IF Len(eligibleBanners) = 0
    THEN Null
    ELSE IF SumWeights(eligibleBanners) = 0
    THEN eligibleBanners[draw]
    ELSE eligibleBanners[FirstReaching(eligibleBanners, draw, 0, 1)]

\* this.placementBannerCache[request.placementId] || []
EligibleAt(placementId) ==
    IF placementId \in DOMAIN placementBannerCache
    THEN placementBannerCache[placementId]
    ELSE <<>>

Targeted(placementId, customParams) ==
    SelectSeq(EligibleAt(placementId),
              LAMBDA b : checkTargetingRules(b, customParams).isEligible)

NotServed(reason) ==
    [served |-> FALSE, bannerId |-> NoValue, advertiserId |-> NoValue,
     creativeUrl |-> NoValue, landingPage |-> NoValue, reason |-> reason]

\* the draws open to serveAd for a request; an empty pool draws nothing
DrawsAt(placementId, customParams) ==
    IF Targeted(placementId, customParams) = <<>>
    THEN {0}
    ELSE Draws(Targeted(placementId, customParams))

\* serveAd that tells an empty placement and an empty targeting result alike
serveAdOneReason(placementId, customParams, draw) ==
    IF Len(Targeted(placementId, customParams)) = 0
    THEN NotServed(<<"No banners passed targeting rules">>)
    ELSE LET selectedBanner == selectBannerWeighted(Targeted(placementId, customParams), draw)
         IN  [served |-> TRUE, bannerId |-> selectedBanner.id,
              advertiserId |-> selectedBanner.advertiserId,
                   creativeUrl |-> selectedBanner.creativeUrl,
                   landingPage |-> selectedBanner.landingPage,
              reason |-> <<"Ad served successfully">>]

serveAd(placementId, customParams, draw) ==
    IF Len(EligibleAt(placementId)) = 0
    THEN NotServed(<<"No banners configured for placement", placementId>>)
    ELSE IF Len(Targeted(placementId, customParams)) = 0
    THEN NotServed(<<"No banners passed targeting rules">>)
    ELSE LET selectedBanner == selectBannerWeighted(Targeted(placementId, customParams), draw)
         IN  IF selectedBanner = Null
             THEN NotServed(<<"Banner selection failed">>)
             ELSE [served |-> TRUE, bannerId |-> selectedBanner.id,
                   advertiserId |-> selectedBanner.advertiserId,
                   creativeUrl |-> selectedBanner.creativeUrl,
                   landingPage |-> selectedBanner.landingPage,
                   reason |-> <<"Ad served successfully">>]

\* ------------------------------------------------------ EnhancedFalconServer
cacheEnabled == TRUE
Undefined == <<"undefined">>

\* Object.entries(userIdentifiers) in localeCompare order of the keys
KeyRank == [cookie_id |-> 1, device_id |-> 2, email_hash |-> 3]
RECURSIVE SortByKey(_)
SortByKey(entries) ==
    IF entries = <<>> THEN <<>>
    ELSE LET least == CHOOSE i \in 1..Len(entries) :
                        \A j \in 1..Len(entries) :
                            \/ KeyRank[entries[i][1]] < KeyRank[entries[j][1]]
                            \/ KeyRank[entries[i][1]] = KeyRank[entries[j][1]] /\ i <= j
         IN  <<entries[least]>> \o
             SortByKey([k \in 1..(Len(entries) - 1) |->
                            IF k < least THEN entries[k] ELSE entries[k + 1]])

\* the values that contain the characters ':' or '|', cut at these characters
Delimited ==
    "uuid|email_hash:hex64" :> <<"uuid", "|", "email_hash", ":", "hex64">>

\* the text of a value inside a key: a string is the concatenation of its pieces
Pieces(value) ==
    IF value = NoValue THEN <<>>
    ELSE IF value \in DOMAIN Delimited THEN Delimited[value]
    ELSE <<value>>

\* entries.map(([key, value]) => `${key}:${value}`).join('|')
RECURSIVE JoinPairs(_)
JoinPairs(entries) ==
    IF entries = <<>> THEN <<>>
    ELSE <<entries[1][1], ":">> \o Pieces(entries[1][2]) \o
         (IF Len(entries) = 1 THEN <<>> ELSE <<"|">> \o JoinPairs(Tail(entries)))

\* the key built without the filter on the values
generateCacheKeyUnfiltered(userIdentifiers) ==
    JoinPairs(SortByKey(userIdentifiers))

\* the key built from the entries in the order the object lists them
generateCacheKeyUnsorted(userIdentifiers) ==
    JoinPairs(SelectSeq(userIdentifiers, LAMBDA e : e[2] # NoValue))

generateCacheKey(userIdentifiers) ==
    JoinPairs(SortByKey(SelectSeq(userIdentifiers, LAMBDA e : e[2] # NoValue)))

\* the per-type loop without its try/catch around each lookup: the first
\* lookup that throws ends the loop
RECURSIVE CheckEachUncaught(_, _, _, _, _)
CheckEachUncaught(entries, faults, ls, is, acc) ==
    IF entries = <<>> THEN acc
    ELSE IF entries[1][2] # NoValue /\ entries[1][1] \in faults
    THEN [acc EXCEPT !.details = Append(@, <<"Error checking", entries[1][1]>>)]
    ELSE LET advertisers == findAdvertisersForIdentifierOn(ls, is, entries[1][2],
                                                           entries[1][1])
         IN  CheckEachUncaught(Tail(entries), faults, ls, is,
                [suppressedAdvertisers |->
                     acc.suppressedAdvertisers \cup
                     (IF entries[1][2] = NoValue THEN {} ELSE advertisers.suppressed),
                 listsChecked |-> acc.listsChecked,
                 details |-> acc.details])

\* the per-type loop of checkUserSuppression (lines 114-130); the lookups of
\* the types in faults throw
RECURSIVE CheckEach(_, _, _, _, _)
CheckEach(entries, faults, ls, is, acc) ==
    IF entries = <<>> THEN acc
    ELSE LET identifierType == entries[1][1]
             identifier == entries[1][2]
             advertisers == findAdvertisersForIdentifierOn(ls, is, identifier,
                                                           identifierType)
             next ==
                IF identifier = NoValue THEN acc
                ELSE IF identifierType \in faults
                THEN [acc EXCEPT !.details = Append(@, <<"Error checking", identifierType>>)]
                ELSE [suppressedAdvertisers |->
                          acc.suppressedAdvertisers \cup advertisers.suppressed,
                      listsChecked |-> acc.listsChecked + advertisers.listsChecked,
                      details |->
                          IF advertisers.suppressed # {}
                          THEN Append(acc.details,
                                      <<identifierType, "matched",
                                        Cardinality(advertisers.suppressed)>>)
                          ELSE acc.details]
         IN  CheckEach(Tail(entries), faults, ls, is, next)

NoMatch == [suppressedAdvertisers |-> {}, listsChecked |-> 0, details |-> <<>>]

\* const maxAge = 5 * 60 * 1000
maxAge == 300000
\* the cache size above which a cache write runs cleanupCache
cleanupThreshold == 10000

\* the sweep that also takes the entries that are exactly maxAge old
cleanupCacheFromMaxAge(c, t) ==
    [k \in {x \in DOMAIN c : ~(t - c[x].timestamp >= maxAge)} |-> c[k]]

\* cleanupCache at time t: the entries older than maxAge go
cleanupCache(c, t) ==
    [k \in {x \in DOMAIN c : ~(t - c[x].timestamp > maxAge)} |-> c[k]]

\* the cache write that stores every result, an empty one too
CacheWriteAlways(c, cacheKey, result, t) ==
    [k \in DOMAIN c \cup {cacheKey} |->
        IF k = cacheKey
        THEN [suppressedAdvertisers |-> result.suppressedAdvertisers,
              listsChecked |-> result.listsChecked,
              details |-> result.details, timestamp |-> t]
        ELSE c[k]]

\* the cache write at the end of a resolution (lines 140-153)
CacheWrite(c, cacheKey, result, t) ==
    IF cacheEnabled /\ result.suppressedAdvertisers # {}
    THEN LET written == [k \in DOMAIN c \cup {cacheKey} |->
                            IF k = cacheKey
                            THEN [suppressedAdvertisers |-> result.suppressedAdvertisers,
                                  listsChecked |-> result.listsChecked,
                                  details |-> result.details, timestamp |-> t]
                            ELSE c[k]]
         IN  IF Cardinality(DOMAIN written) > cleanupThreshold
             THEN cleanupCache(written, t)
             ELSE written
    ELSE c

\* checkUserSuppression after ensureInitialized, at time t: the result and the
\* cache it leaves
checkUserSuppressionOn(userIdentifiers, faults, ls, is, c, t) ==
    LET cacheKey == generateCacheKey(userIdentifiers)
    IN  IF cacheEnabled /\ cacheKey \in DOMAIN c
        THEN [result |-> [suppressedAdvertisers |-> c[cacheKey].suppressedAdvertisers,
                          listsChecked |-> c[cacheKey].listsChecked,
                          details |-> <<<<"Result served from cache">>>> \o
                                      c[cacheKey].details],
              cache |-> c, fromCache |-> TRUE, lookups |-> {}]
        ELSE LET result == CheckEach(userIdentifiers, faults, ls, is, NoMatch)
             IN  [result |-> result, cache |-> CacheWrite(c, cacheKey, result, t),
                  fromCache |-> FALSE,
                  lookups |-> {userIdentifiers[i][1] :
                                  i \in {j \in 1..Len(userIdentifiers) :
                                             userIdentifiers[j][2] # NoValue}}]

\* performance.now() - startTime, in milliseconds
ProcessingTimes == {1, 3}

RECURSIVE Gcd(_, _)
Gcd(a, b) == IF b = 0 THEN a ELSE Gcd(b, a % b)

\* the number num/den, in lowest terms
Ratio(num, den) ==
    LET g == IF num = 0 THEN den ELSE Gcd(num, den)
    IN  [num |-> num \div g, den |-> den \div g]

\* the statistics update, which the return on a cache hit does not reach
UpdateStats(s, fromCache, listsChecked, processingTime) ==
    IF fromCache THEN s
    ELSE LET totalRequests == s.totalRequests + 1
             avg == s.averageLookupTime
         IN  [totalRequests |-> totalRequests,
              suppressionChecks |-> s.suppressionChecks + listsChecked,
              averageLookupTime |->
                  Ratio(avg.num * (totalRequests - 1) + processingTime * avg.den,
                        avg.den * totalRequests)]

\* this.cacheHits++ on the cache's answer, this.cacheMisses++ otherwise
CountOutcome(fromCache) ==
    /\ fromCache => cacheHits < MaxHits
    /\ cacheHits' = IF fromCache THEN cacheHits + 1 ELSE cacheHits
    /\ cacheMisses' = IF fromCache THEN cacheMisses ELSE cacheMisses + 1

\* getSuppressionStats, but for its two rounded figures (cache_hit_rate and
\* avg_lookup_time_ms)
getSuppressionStats ==
    /\ resp' = [op |-> "getSuppressionStats",
                total_lists_loaded |-> stats.totalRequests,
                cache_size |-> Cardinality(DOMAIN cache),
                total_suppression_checks |-> stats.suppressionChecks,
                initialized |-> initialized]
    /\ UNCHANGED <<foreign_keys, lists, idents, passed, txn, cl, calls, serverVars>>

\* step 4 left out: the ad server's response goes back as it came
OverrideSkipped(adResponse, suppressedAdvertisers) == adResponse

\* step 4 that clears the banner but leaves its creative in the response
OverrideKeepsCreative(adResponse, suppressedAdvertisers) ==
    IF adResponse.served /\ adResponse.advertiserId \in suppressedAdvertisers
    THEN [adResponse EXCEPT
             !.served = FALSE, !.bannerId = NoValue,
             !.reason = <<"Advertiser", adResponse.advertiserId, "suppressed by Falcon">>]
    ELSE adResponse

\* step 4 of serveAdWithSuppression: the post-selection override
Override(adResponse, suppressedAdvertisers) ==
    IF adResponse.served /\ adResponse.advertiserId \in suppressedAdvertisers
    THEN [served |-> FALSE, bannerId |-> NoValue,
          advertiserId |-> adResponse.advertiserId,
          creativeUrl |-> NoValue, landingPage |-> NoValue,
          reason |-> <<"Advertiser", adResponse.advertiserId, "suppressed by Falcon">>]
    ELSE adResponse

FallbackResult ==
    [suppressedAdvertisers |-> {}, listsChecked |-> 0,
     details |-> <<<<"Fallback mode: suppression check failed">>>>]

\* the initialization the constructor starts: manager.initialize() opens the store
initializeSuppressionOpen(opens) ==
    /\ init_pc = "open"
    /\ db_open' = (db_open \/ opens)
    /\ init_pc' = IF opens THEN "load" ELSE "failed"
    /\ resp' = Nothing
    /\ UNCHANGED <<foreign_keys, lists, idents, passed, txn, cl, calls, initialized, cache, now,
                   stats, cacheHits, cacheMisses, localStorage, asked>>

\* ... and, once loadSuppressionLists has issued its createList calls, sets the flag
initializeSuppressionDone ==
    /\ init_pc = "load"
    /\ cl.pc = "idle"
    /\ initialized' = TRUE
    /\ init_pc' = "done"
    /\ resp' = Nothing
    /\ UNCHANGED <<foreign_keys, lists, idents, passed, txn, cl, calls, db_open, cache, now,
                   stats, cacheHits, cacheMisses, localStorage, asked>>

\* ensureInitialized: a request that finds the flag clear runs initializeSuppression
\* itself, which replaces the manager by a new one on a new ':memory:' database
ensureInitialized(opens) ==
    IF initialized
    THEN UNCHANGED <<lists, idents, passed, txn, cl, db_open, initialized>>
    ELSE IF opens
    THEN /\ lists' = Empty
         /\ idents' = Empty
         /\ passed' = Empty
         /\ txn' = NoTxn
         /\ cl' = Idle
         /\ db_open' = TRUE
         /\ initialized' = TRUE
    ELSE /\ db_open' = FALSE
         /\ UNCHANGED <<lists, idents, passed, txn, cl, initialized>>

UserIdentifierInputs ==
    {<<<<"email_hash", e>>, <<"device_id", d>>>> :
        e \in {NoValue, "hex64"}, d \in {NoValue, "uuid"}}
    \cup {<<<<"device_id", "uuid">>, <<"email_hash", "hex64">>>>}

\* the identifier types a request carries a value for
TypesPresent(userIdentifiers) ==
    IF userIdentifiers = Undefined THEN {}
    ELSE {userIdentifiers[i][1] : i \in {j \in 1..Len(userIdentifiers) :
                                            userIdentifiers[j][2] # NoValue}}

checkUserSuppression(userIdentifiers, faults, opens) ==
    /\ ensureInitialized(opens)
    /\ IF ~initialized'
       THEN /\ resp' = [op |-> "checkUserSuppression", rejected |-> TRUE]
            /\ UNCHANGED <<cache, stats, cacheHits, cacheMisses>>
       ELSE \E out \in {checkUserSuppressionOn(userIdentifiers, faults, lists', idents', cache, now)},
               t \in ProcessingTimes :
                /\ CountOutcome(out.fromCache)
                /\ (~out.fromCache \/ ~initialized) => calls < MaxCalls
                /\ resp' = [op |-> "checkUserSuppression", rejected |-> FALSE,
                            userIdentifiers |-> userIdentifiers, faults |-> faults,
                            result |-> out.result, processingTime |-> t,
                            lookups |-> out.lookups]
                /\ cache' = out.cache
                /\ stats' = UpdateStats(stats, out.fromCache, out.result.listsChecked, t)
    /\ calls' = IF <<cache, db_open, initialized, stats>>' # <<cache, db_open, initialized, stats>>
                THEN calls + 1 ELSE calls
    /\ calls' <= MaxCalls
    /\ UNCHANGED <<foreign_keys, init_pc, now, localStorage, asked>>

\* serveAdWithSuppression; escapes = an exception leaves checkUserSuppression
serveAdWithSuppression(placementId, userIdentifiers, faults, escapes, opens) ==
    /\ ensureInitialized(opens)
    /\ IF ~initialized'
       THEN /\ resp' = [op |-> "serveAdWithSuppression", rejected |-> TRUE,
                        path |-> "ensureInitialized"]
            /\ UNCHANGED <<cache, stats, cacheHits, cacheMisses>>
       ELSE IF userIdentifiers = Undefined
       THEN \* Object.entries(undefined) throws, and so does the catch block
            /\ resp' = [op |-> "serveAdWithSuppression", rejected |-> TRUE,
                        path |-> "fallback"]
            /\ UNCHANGED <<cache, stats, cacheHits, cacheMisses>>
       ELSE IF escapes
       THEN /\ \E draw \in DrawsAt(placementId, [suppress_advertisers |-> Array({})]) :
                 resp' = [op |-> "serveAdWithSuppression", rejected |-> FALSE,
                          path |-> "fallback", placementId |-> placementId,
                          userIdentifiers |-> userIdentifiers,
                          adResponse |-> serveAd(placementId,
                                                 [suppress_advertisers |-> Array({})], draw),
                          suppressionResult |-> FallbackResult]
            /\ UNCHANGED <<cache, stats, cacheHits, cacheMisses>>
       ELSE \E out \in {checkUserSuppressionOn(userIdentifiers, faults, lists', idents', cache, now)},
               t \in ProcessingTimes :
            LET customParams ==
                    [suppress_advertisers |-> Array(out.result.suppressedAdvertisers),
                     suppression_check_time_ms |-> Scalar("ms")]
            IN  /\ CountOutcome(out.fromCache)
                /\ (~out.fromCache \/ ~initialized) => calls < MaxCalls
                /\ cache' = out.cache
                /\ stats' = UpdateStats(stats, out.fromCache, out.result.listsChecked, t)
                /\ \E draw \in DrawsAt(placementId, customParams) :
                     LET adResponse == serveAd(placementId, customParams, draw)
                     IN  resp' = [op |-> "serveAdWithSuppression", rejected |-> FALSE,
                                  path |-> "normal", placementId |-> placementId,
                                  userIdentifiers |-> userIdentifiers,
                                  adServerResponse |-> adResponse,
                                  adResponse |-> Override(adResponse,
                                                          out.result.suppressedAdvertisers),
                                  suppressionResult |-> out.result, processingTime |-> t,
                                  lookups |-> out.lookups]
    /\ calls' = IF <<cache, db_open, initialized, stats>>' # <<cache, db_open, initialized, stats>>
                THEN calls + 1 ELSE calls
    /\ calls' <= MaxCalls
    /\ UNCHANGED <<foreign_keys, init_pc, now, localStorage, asked>>

\* -------------------------------------------------- list combining logic
\* checkListSuppression: is a value the request carries for the list's
\* identifier type among the identifiers getList returns
checkListSuppression(userIdentifiers, listId) ==
    LET list == GetListOn(lists, idents, listId)
    IN  IF ~list.found THEN [suppressed |-> FALSE, reason |-> "List not found"]
        ELSE IF \E i \in 1..Len(userIdentifiers) :
                    /\ userIdentifiers[i][2] # NoValue
                    /\ userIdentifiers[i][1] = list.row.identifier_type
                    /\ userIdentifiers[i][2] \in list.identifiers
        THEN [suppressed |-> TRUE, reason |-> <<"Found in list", list.row.name>>,
              advertiserId |-> list.row.advertiser_id]
        ELSE [suppressed |-> FALSE, reason |-> "Not found in list"]

\* logicConfig: operator may be absent (NoValue) and defaults to OR
LogicConfigs ==
    [operator : {NoValue, "OR", "AND", "XOR"},
     listIds : UNION {[1..n -> ListIds \cup {"L9"}] : n \in 0..2}]

checkCombinedSuppression(userIdentifiers, logicConfig) ==
    LET operator == IF logicConfig.operator = NoValue THEN "OR" ELSE logicConfig.operator
        listIds == logicConfig.listIds
        listResults == [i \in 1..Len(listIds) |->
                           checkListSuppression(userIdentifiers, listIds[i])]
        matched == Cardinality({i \in 1..Len(listIds) : listResults[i].suppressed})
    IN  /\ resp' = [op |-> "checkCombinedSuppression",
                    userIdentifiers |-> userIdentifiers, logicConfig |-> logicConfig,
                    suppressed |->
                        IF Len(listIds) = 0 THEN FALSE
                        ELSE IF operator = "OR"
                        THEN \E i \in 1..Len(listIds) : listResults[i].suppressed
                        ELSE IF operator = "AND"
                        THEN \A i \in 1..Len(listIds) : listResults[i].suppressed
                        ELSE FALSE,
                    details |->
                        IF Len(listIds) = 0 \/ operator \notin {"OR", "AND"} THEN <<>>
                        ELSE <<<<operator, "logic", matched, Len(listIds), "lists matched">>>>]
        /\ UNCHANGED <<foreign_keys, lists, idents, passed, txn, cl, calls>>

\* ---------------------------------------------------------- RateLimiter
\* Identifiers and operation names are kept as their pieces between
\* underscores, so that the key `${advertiserId}_${operation}_${minute}` is
\* the concatenation it is in the source.
minute == 60000

\* setDefaultLimits
limits ==
    (<<"list", "creation">> :> 10) @@ (<<"suppression", "check">> :> 1000)
        @@ (<<"bulk", "import">> :> 5)

getCurrentMinute(t) == t \div minute
getNextMinute(t) == (getCurrentMinute(t) + 1) * minute

\* Number.prototype.toString: the decimal digits
RECURSIVE toString(_)
toString(n) == IF n < 10 THEN <<n>> ELSE toString(n \div 10) \o <<n % 10>>

\* parseInt of a string of decimal digits
RECURSIVE parseInt(_)
parseInt(digits) ==
    IF Len(digits) = 1 THEN digits[1]
    ELSE 10 * parseInt(SubSeq(digits, 1, Len(digits) - 1)) + digits[Len(digits)]

getCurrentCount(storage, key) ==
    parseInt(IF DOMAIN storage # {} /\ key \in DOMAIN storage THEN storage[key] ELSE <<0>>)

incrementCount(storage, key) ==
    [k \in DOMAIN storage \cup {key} |->
        IF k = key THEN toString(getCurrentCount(storage, key) + 1) ELSE storage[k]]

\* currentCount >= limit turns the call away
Allowed(currentCount, limit) == currentCount < limit

RECURSIVE Total(_)
Total(f) ==
    IF DOMAIN f = {} THEN 0
    ELSE LET k == CHOOSE x \in DOMAIN f : TRUE IN f[k] + Total(Without(f, {k}))

\* RateLimiter.check; where no global localStorage exists (Node without
\* --localstorage-file) getCurrentCount throws a ReferenceError
check(advertiserId, operation) ==
    LET key == advertiserId \o operation \o <<getCurrentMinute(now)>>
        limit == IF operation \in DOMAIN limits THEN limits[operation] ELSE 10
        call == <<advertiserId, operation, getCurrentMinute(now)>>
    IN  /\ Total(asked) < MaxAsked
        /\ asked' = [c \in DOMAIN asked \cup {call} |->
                        IF c = call
                        THEN (IF DOMAIN asked # {} /\ c \in DOMAIN asked THEN asked[c] ELSE 0) + 1
                        ELSE asked[c]]
        /\ IF ~localStorage.defined
           THEN /\ resp' = [op |-> "RateLimiter.check", threw |-> TRUE,
                            advertiserId |-> advertiserId, operation |-> operation,
                            error |-> "localStorage is not defined"]
                /\ UNCHANGED localStorage
           ELSE LET currentCount == getCurrentCount(localStorage.items, key)
                IN  IF ~Allowed(currentCount, limit)
                    THEN /\ resp' = [op |-> "RateLimiter.check", threw |-> FALSE,
                                     advertiserId |-> advertiserId, operation |-> operation,
                                     allowed |-> FALSE, remaining |-> 0,
                                     resetTime |-> getNextMinute(now)]
                         /\ UNCHANGED localStorage
                    ELSE /\ localStorage' = [localStorage EXCEPT
                                                !.items = incrementCount(localStorage.items, key)]
                         /\ resp' = [op |-> "RateLimiter.check", threw |-> FALSE,
                                     advertiserId |-> advertiserId, operation |-> operation,
                                     allowed |-> TRUE, remaining |-> limit - currentCount - 1,
                                     resetTime |-> getNextMinute(now)]
        /\ UNCHANGED <<foreign_keys, lists, idents, passed, txn, cl, calls,
                       db_open, initialized, init_pc, cache, now, stats,
                       cacheHits, cacheMisses>>

\* ------------------------------------------------------------ specification
StoreInit ==
    /\ foreign_keys \in BOOLEAN
    /\ lists = Empty
    /\ idents = Empty
    /\ passed = Empty
    /\ txn = NoTxn
    /\ cl = Idle
    /\ calls = 0
    /\ cache = Empty
    /\ now = 0
    /\ stats = [totalRequests |-> 0, suppressionChecks |-> 0, averageLookupTime |-> Ratio(0, 1)]
    /\ asked = Empty
    /\ cacheHits = 0
    /\ cacheMisses = 0
    /\ resp = Nothing

\* a manager a caller has initialized
ManagerInit ==
    /\ StoreInit
    /\ db_open = TRUE
    /\ initialized = TRUE
    /\ init_pc = "done"
    /\ localStorage = [defined |-> FALSE, items |-> Empty]

\* a server right after its constructor: the manager exists, its store is not open
Init ==
    /\ StoreInit
    /\ db_open = FALSE
    /\ initialized = FALSE
    /\ init_pc = "open"
    /\ localStorage = [defined |-> FALSE, items |-> Empty]

\* The caller of the call that just returned resumes with its response; a
\* resolved promise is delivered before the next statement's completion runs.
Deliver ==
    /\ resp # Nothing
    /\ resp' = Nothing
    /\ UNCHANGED <<foreign_keys, lists, idents, passed, txn, cl, calls, serverVars>>

\* time passes
Tick ==
    /\ resp = Nothing
    /\ now < MaxTicks * maxAge
    /\ now' = now + maxAge
    /\ UNCHANGED <<foreign_keys, lists, idents, passed, txn, cl, calls,
                   db_open, initialized, init_pc, cache, stats, cacheHits, cacheMisses,
                   localStorage, asked, resp>>

\* the statements of a createList call that is past its BEGIN
CreateListSteps ==
    /\ resp = Nothing
    /\ \/ CreateListInsertList
       \/ \E f \in BOOLEAN : CreateListInsertIdentifier(f)
       \/ CreateListCommit
       \/ CreateListRollback
    /\ UNCHANGED serverVars

\* the calls a task may issue on the manager
StoreCalls(listInputs) ==
    /\ resp = Nothing
    /\ \/ \E d \in listInputs : CreateListCall(d)
       \/ \E l \in ListIds : getList(l)
       \/ \E l \in ListIds, u \in UpdateInputs : updateList(l, u)
       \/ \E l \in ListIds : deleteList(l)
       \/ \E a \in Advertisers, o \in ListOptions : getListsByAdvertiser(a, o)
       \/ \E c \in Cutoffs : applyExpirationPolicy(c)
       \/ \E c \in Cutoffs : getExpiredLists(c)
       \/ \E i \in Identifiers, t \in IdentifierTypes : findAdvertisersForIdentifier(i, t)
    /\ UNCHANGED serverVars

\* SUM(size) over a set of lists
RECURSIVE SumOfSizes(_, _)
SumOfSizes(ls, S) ==
    IF S = {} THEN 0
    ELSE LET l == CHOOSE x \in S : TRUE IN ls[l].size + SumOfSizes(ls, S \ {l})

\* getStats: the aggregates over the active lists; SUM over no row is NULL,
\* written <<>>, and a sum n is written <<n>>
getStats ==
    LET active == {l \in DOMAIN lists : lists[l].is_active}
    IN  /\ resp' = [op |-> "getStats",
                    total_lists |-> Cardinality(active),
                    total_advertisers |-> Cardinality({lists[l].advertiser_id : l \in active}),
                    total_identifiers |-> IF active = {} THEN <<>>
                                          ELSE <<SumOfSizes(lists, active)>>,
                    identifier_types |-> Cardinality({lists[l].identifier_type : l \in active})]
        /\ UNCHANGED <<foreign_keys, lists, idents, passed, txn, cl, calls>>

\* the retention periods in days: that of enforceDataRetention, and none
RetentionDays == {0, 90}

\* removeOldIdentifiers: DELETE FROM suppression_identifiers WHERE added_at < ?.
\* added_at is CURRENT_TIMESTAMP ('YYYY-MM-DD hh:mm:ss') and the cutoff an ISO
\* string ('YYYY-MM-DDThh:mm:ss.sssZ'), so a row goes when its day is not after
\* the cutoff's day; every stored row was added on the day of the call
removeOldIdentifiers(retentionDays) ==
    LET old == IF retentionDays <= 0 THEN DOMAIN idents ELSE {}
    IN  /\ calls < MaxCalls
        /\ calls' = calls + 1
        /\ idents' = Without(idents, old)
        /\ resp' = [op |-> "removeOldIdentifiers", retentionDays |-> retentionDays,
                    changes |-> Cardinality(old)]
        /\ UNCHANGED <<foreign_keys, lists, passed, txn, cl>>

\* one caller that awaits every call before it issues the next
NextStore ==
    \/ Deliver
    \/ CreateListSteps
    \/ cl.pc = "idle" /\ StoreCalls(ListInputs)

SpecStore == ManagerInit /\ [][NextStore]_vars

\* the caller of NextStore that also reads the statistics and applies the
\* identifier retention
NextStats ==
    \/ NextStore
    \/ /\ resp = Nothing
       /\ cl.pc = "idle"
       /\ \/ getStats
          \/ \E d \in RetentionDays : removeOldIdentifiers(d)
       /\ UNCHANGED serverVars

SpecStats == ManagerInit /\ [][NextStats]_vars

\* tasks whose statements interleave on the one connection
NextTxn ==
    \/ Deliver
    \/ CreateListSteps
    \/ StoreCalls({d \in ListInputs : d.advertiser_id = "adv_a" /\ d.identifier_type # "email_hash"})

SpecTxn == ManagerInit /\ [][NextTxn]_vars

\* the lists the callers of checkCombinedSuppression create: two of one
\* advertiser that hold the same e-mail hash, and a device list
CombineLists ==
    {d \in ListInputs :
        \/ d.identifier_type = "email_hash" /\ d.advertiser_id = "adv_a"
               /\ d.identifiers \in {<<"hex64">>, <<"user@example.com">>}
        \/ d.identifier_type = "device_id" /\ d.id = "L2" /\ d.identifiers = <<"uuid">>}

NextCombine ==
    \/ Deliver
    \/ CreateListSteps
    \/ /\ resp = Nothing
       /\ cl.pc = "idle"
       /\ \E d \in CombineLists : CreateListCall(d)
       /\ UNCHANGED serverVars
    \/ /\ resp = Nothing
       /\ cl.pc = "idle"
       /\ \E u \in UserIdentifierInputs, c \in LogicConfigs : checkCombinedSuppression(u, c)
       /\ UNCHANGED serverVars

CombineInit == ManagerInit /\ foreign_keys = FALSE

SpecCombine == CombineInit /\ [][NextCombine]_vars

\* a server that has been up for maxAge and has answered one request short of
\* cleanupThreshold, each for another cookie_id, half of them right after its
\* start and half of them just now
FullCache ==
    [k \in {<<"cookie_id", ":", i>> : i \in 1..(cleanupThreshold - 1)} |->
        [suppressedAdvertisers |-> {"adv_a"}, listsChecked |-> 1,
         details |-> <<<<"cookie_id", "matched", 1>>>>,
         timestamp |-> IF k[3] % 2 = 0 THEN 0 ELSE maxAge]]

CacheInit ==
    /\ foreign_keys = FALSE
    /\ lists = [L1 |-> [advertiser_id |-> "adv_a", name |-> "n1", description |-> "d1",
                        identifier_type |-> "email_hash", last_updated |-> 0,
                        size |-> 1, is_active |-> TRUE],
                L2 |-> [advertiser_id |-> "adv_b", name |-> "n1", description |-> "d1",
                        identifier_type |-> "device_id", last_updated |-> 0,
                        size |-> 1, is_active |-> TRUE]]
    /\ idents = InsertOrIgnore(InsertOrIgnore(Empty, "hex64", "email_hash", "L1", "adv_a"),
                               "uuid", "device_id", "L2", "adv_b")
    /\ passed = [L1 |-> [identifiers |-> {"hex64"}, advertiser_id |-> "adv_a",
                         identifier_type |-> "email_hash"],
                 L2 |-> [identifiers |-> {"uuid"}, advertiser_id |-> "adv_b",
                         identifier_type |-> "device_id"]]
    /\ txn = NoTxn
    /\ cl = Idle
    /\ calls = MaxCalls - 2
    /\ db_open = TRUE
    /\ initialized = TRUE
    /\ init_pc = "done"
    /\ cache = FullCache
    /\ now = maxAge
    /\ stats = [totalRequests |-> cleanupThreshold - 1,
                suppressionChecks |-> cleanupThreshold - 1,
                averageLookupTime |-> Ratio(1, 1)]
    /\ cacheHits = MaxHits - 1
    /\ cacheMisses = cleanupThreshold - 1
    /\ localStorage = [defined |-> FALSE, items |-> Empty]
    /\ asked = Empty
    /\ resp = Nothing

NextCache ==
    \/ Deliver
    \/ Tick
    \/ /\ resp = Nothing
       /\ \E u \in {v \in UserIdentifierInputs : NoValue \in {v[1][2], v[2][2]}} :
              checkUserSuppression(u, {}, TRUE)

SpecCache == CacheInit /\ [][NextCache]_vars

\* half a minute passes
Elapse ==
    /\ resp = Nothing
    /\ now + minute \div 2 <= (MaxTicks - 1) * minute
    /\ now' = now + minute \div 2
    /\ UNCHANGED <<foreign_keys, lists, idents, passed, txn, cl, calls,
                   db_open, initialized, init_pc, cache, stats, cacheHits, cacheMisses,
                   localStorage, asked, resp>>

\* the callers of the limiter: two whose keys coincide, and a second operation
RateInputs ==
    {[advertiserId |-> <<"adv", "a">>, operation |-> <<"list", "creation">>],
     [advertiserId |-> <<"adv">>, operation |-> <<"a", "list", "creation">>],
     [advertiserId |-> <<"adv", "a">>, operation |-> <<"bulk", "import">>]}

NextRate ==
    \/ Deliver
    \/ Elapse
    \/ resp = Nothing /\ \E i \in RateInputs : check(i.advertiserId, i.operation)

\* a process in which the global localStorage exists, or does not
RateInit ==
    /\ StoreInit
    /\ foreign_keys = FALSE
    /\ db_open = TRUE
    /\ initialized = TRUE
    /\ init_pc = "done"
    /\ localStorage \in [defined : BOOLEAN, items : {Empty}]

SpecRate == RateInit /\ [][NextRate]_vars

\* the lists the server's callers load: two advertisers that suppress the same
\* e-mail hash, and a device list
ServerLists ==
    {[id |-> "L1", advertiser_id |-> "adv_a", identifier_type |-> "email_hash",
      last_updated |-> 0, identifiers |-> <<"hex64">>],
     [id |-> "L2", advertiser_id |-> "adv_b", identifier_type |-> "email_hash",
      last_updated |-> 0, identifiers |-> <<"hex64">>],
     [id |-> "L2", advertiser_id |-> "adv_b", identifier_type |-> "device_id",
      last_updated |-> 0, identifiers |-> <<"uuid">>]}

\* can the store be opened; asked only by a request that has to initialize
OpenOutcomes == IF initialized THEN {TRUE} ELSE BOOLEAN

\* the server: its initialization, list management and requests
Next ==
    \/ Deliver
    \/ Tick
    \/ resp = Nothing /\ \E o \in BOOLEAN : initializeSuppressionOpen(o)
    \/ resp = Nothing /\ initializeSuppressionDone
    \/ resp = Nothing /\ getSuppressionStats
    \/ CreateListSteps
    \/ /\ resp = Nothing
       /\ db_open
       /\ cl.pc = "idle"
       /\ \/ \E d \in ServerLists : CreateListCall(d)
          \/ \E l \in ListIds : deleteList(l)
       /\ UNCHANGED serverVars
    \/ /\ resp = Nothing
       /\ \E u \in UserIdentifierInputs, o \in OpenOutcomes :
            \E f \in SUBSET TypesPresent(u) : checkUserSuppression(u, f, o)
    \/ /\ resp = Nothing
       /\ \E p \in Placements, u \in UserIdentifierInputs \cup {Undefined}, o \in OpenOutcomes :
            \E f \in SUBSET TypesPresent(u) :
              \E e \in {FALSE, f = {} /\ u # Undefined} :
                  serveAdWithSuppression(p, u, f, e, o)

Spec == Init /\ [][Next]_vars

\* one caller that imports CSV files into a manager and reads the lists back
NextImport ==
    \/ Deliver
    \/ /\ resp = Nothing
       /\ \E rows \in CsvFiles, deduplicate, validate \in BOOLEAN :
              importFromCSV(rows, deduplicate, validate)
       /\ UNCHANGED serverVars
    \/ /\ resp = Nothing
       /\ \E l \in DOMAIN lists : getList(l)
       /\ UNCHANGED serverVars

\* a manager a caller has initialized, its store as SQLite opens it
ImportInit == ManagerInit /\ foreign_keys = FALSE

SpecImport == ImportInit /\ [][NextImport]_vars

\* identifier mappings: objects whose keys are distinct, in any property order
MappingInputs ==
    {u \in UNION {[1..n -> TypeInputs \X ({NoValue, "hex64", "uuid"} \cup DOMAIN Delimited)] :
                      n \in 0..Cardinality(TypeInputs)} :
        /\ \A i, j \in 1..Len(u) : u[i][1] = u[j][1] => i = j
        /\ \A i \in 1..Len(u) :
              u[i][2] \in (IF u[i][1] = "device_id"
                           THEN {NoValue, "uuid"} \cup DOMAIN Delimited
                           ELSE {NoValue, "hex64"})}

\* a call of a function that reads and writes no state: its value goes to the caller
Returned(value) ==
    /\ resp = Nothing
    /\ resp' = value
    /\ UNCHANGED <<foreign_keys, lists, idents, passed, txn, cl, calls, serverVars>>

\* request.customParams: each key absent, a scalar or an array
ParamValues ==
    {Scalar(v) : v \in {"tech_enthusiast", "adv_a", "adv_b"}}
    \cup {Array(S) : S \in SUBSET Advertisers} \cup {Array({"tech_enthusiast"})}
ParamInputs ==
    UNION {[K -> ParamValues] : K \in SUBSET {ParamKeys[i] : i \in 1..Len(ParamKeys)}}

\* the banners of the config and one that carries both kinds of rule
RuleBanners ==
    {Banners[b] : b \in DOMAIN Banners}
    \cup {[Banners.bn_b_seg EXCEPT !.id = "bn_b_both",
                                   !.excludeParams = [suppress_advertisers |-> "adv_b"]]}

\* pools of up to three Banner objects; a Banner can be built with any weight
Weights == {0, 1, 2}
PoolIds == <<"p1", "p2", "p3">>
WeightPools ==
    UNION {{[i \in 1..n |-> [id |-> PoolIds[i], advertiserId |-> "adv_a", weight |-> w[i]]] :
                w \in [1..n -> Weights]} : n \in 0..Len(PoolIds)}

\* identifier arrays of up to two texts of any of the shapes
ShapeArrays == UNION {[1..n -> DOMAIN Text] : n \in 0..2}

\* the functions of the server and of the ad server, called on their own
NextFn ==
    \/ Deliver
    \/ \E u, v \in MappingInputs :
          Returned([op |-> "generateCacheKey", first |-> u, second |-> v,
                    keyFirst |-> generateCacheKey(u), keySecond |-> generateCacheKey(v)])
    \/ \E identifiers \in ShapeArrays, identifierType \in TypeInputs :
          Returned([op |-> "createList.validate", identifiers |-> identifiers,
                    identifierType |-> identifierType,
                    error |-> createListError(identifiers, identifierType)])
    \/ \E banner \in RuleBanners, customParams \in ParamInputs :
          Returned([op |-> "checkTargetingRules", banner |-> banner,
                    customParams |-> customParams,
                    result |-> checkTargetingRules(banner, customParams)])
    \/ \E eligibleBanners \in WeightPools :
          \E draw \in IF eligibleBanners = <<>> THEN {0} ELSE Draws(eligibleBanners) :
              Returned([op |-> "selectBannerWeighted", eligibleBanners |-> eligibleBanners,
                        draw |-> draw,
                        selected |-> selectBannerWeighted(eligibleBanners, draw)])
    \/ \E placementId \in Placements \cup {"pl_unknown"}, customParams \in ParamInputs :
          \E draw \in DrawsAt(placementId, customParams) :
              Returned([op |-> "serveAd", placementId |-> placementId,
                        customParams |-> customParams, draw |-> draw,
                        response |-> serveAd(placementId, customParams, draw)])

\* the functions read and write no state: one server, its store as SQLite opens it
FnInit == Init /\ foreign_keys = FALSE

SpecFn == FnInit /\ [][NextFn]_vars

\* ------------------------------------------------------------------ claims
\* what the callers of the operations see
Served == resp.op = "serveAdWithSuppression" /\ ~resp.rejected
Looked == resp.op = "findAdvertisersForIdentifier" /\ ~resp.threw
\* a pair that came from the store: no fallback, no cache hit, no lookup that
\* threw, and no createList between its BEGIN and its COMMIT
FromStore ==
    /\ Served
    /\ resp.path = "normal"
    /\ cl.pc = "idle"
    /\ \A i \in 1..Len(resp.suppressionResult.details) :
          resp.suppressionResult.details[i][1]
              \notin {"Error checking", "Result served from cache"}
\* the value a request carries for an identifier type
Carried(userIdentifiers, identifierType) ==
    {userIdentifiers[i][2] : i \in {j \in 1..Len(userIdentifiers) :
                                      /\ userIdentifiers[j][1] = identifierType
                                      /\ userIdentifiers[j][2] # NoValue}}
\* the active lists of a type that were created with an identifier
ActiveListsWith(identifier, identifierType) ==
    {l \in DOMAIN lists \cap DOMAIN passed :
        /\ lists[l].is_active
        /\ lists[l].identifier_type = identifierType
        /\ passed[l].identifier_type = identifierType
        /\ identifier \in passed[l].identifiers}
\* the placements whose banners all belong to one advertiser
PlacementsOf(advertiserId) ==
    {p \in Placements :
        /\ Len(placementBannerCache[p]) > 0
        /\ \A i \in 1..Len(placementBannerCache[p]) :
              placementBannerCache[p][i].advertiserId = advertiserId}

\* C1: on every path the pair serveAdWithSuppression returns never has
\* adResponse.served true while adResponse.advertiserId is in
\* suppressionResult.suppressedAdvertisers, whether or not the selected banner
\* carries a suppress_advertisers exclude rule.
C1_OverrideSafety ==
    Served =>
        ~(/\ resp.adResponse.served
          /\ resp.adResponse.advertiserId \in resp.suppressionResult.suppressedAdvertisers)

\* the only banner of pl_a has no exclude rule, the ad server selected it, and
\* the override turned the response into "not served"
C1_Witness ==
    /\ Served
    /\ resp.path = "normal"
    /\ resp.placementId = "pl_a"
    /\ "adv_a" \in resp.suppressionResult.suppressedAdvertisers
    /\ ~resp.adResponse.served
    /\ resp.adResponse.reason = <<"Advertiser", "adv_a", "suppressed by Falcon">>

\* C2: if an active email_hash list of advertiser A contains hash H, a request
\* carrying email_hash = H for a placement whose only eligible banner belongs
\* to A is answered served = false, with a reason naming A and
\* suppressedAdvertisers = {A}.  (The pair comes from the store, and no other
\* advertiser has an active list with an identifier the request carries.)
C2_ScenarioNotServed ==
    \A a \in Advertisers :
        (/\ FromStore
         /\ resp.placementId \in PlacementsOf(a)
         /\ \E h \in Carried(resp.userIdentifiers, "email_hash") :
               \E l \in ActiveListsWith(h, "email_hash") : lists[l].advertiser_id = a
         /\ \A t \in IdentifierTypes : \A i \in Carried(resp.userIdentifiers, t) :
               \A l \in ActiveListsWith(i, t) : lists[l].advertiser_id = a)
        => /\ ~resp.adResponse.served
           /\ resp.adResponse.reason = <<"Advertiser", a, "suppressed by Falcon">>
           /\ resp.suppressionResult.suppressedAdvertisers = {a}

\* C3: for every identifier I handed to the successful createList of a list L,
\* while L is active findAdvertisersForIdentifier(I, L.identifier_type) returns
\* a set containing L.advertiser_id, whatever other lists were created or
\* deleted before or after.
C3_LookupFindsOwner ==
    Looked =>
        \A l \in ActiveListsWith(resp.identifier, resp.identifier_type) :
            lists[l].advertiser_id \in resp.result.suppressed

\* the lists that were deactivated or deleted, by id
Retired == {l \in DOMAIN passed : l \notin DOMAIN lists \/ ~lists[l].is_active}

\* C4: once a list is deactivated or deleted, a later lookup of one of its
\* identifiers does not return its advertiser on account of that list, and
\* still returns every other advertiser that has an active list created with
\* the identifier.
C4_RetiredListIsolated ==
    Looked =>
        \A l \in {r \in Retired : resp.identifier \in passed[r].identifiers} :
            LET others == ActiveListsWith(resp.identifier, resp.identifier_type) \ {l}
            IN  /\ passed[l].advertiser_id \in resp.result.suppressed
                      => \E m \in others : lists[m].advertiser_id = passed[l].advertiser_id
                /\ \A m \in others :
                      lists[m].advertiser_id # passed[l].advertiser_id
                          => lists[m].advertiser_id \in resp.result.suppressed

\* C5: findAdvertisersForIdentifier(I, T) returns only advertisers that at
\* that moment own an active list of type T containing exactly I.
C5_LookupOnlyActiveOwners ==
    Looked =>
        \A a \in resp.result.suppressed :
            \E l \in ActiveListsWith(resp.identifier, resp.identifier_type) :
                lists[l].advertiser_id = a

\* the step on which a call returns to its caller
Returns(op) == resp.op = "none" /\ resp'.op = op

\* C6: a createList call that fails (unrecognized identifier_type, a malformed
\* identifier, an id that already exists, or an error while inserting the
\* identifiers) leaves no list row and no identifier row of that call, and
\* every list and identifier that existed before it unchanged: the tables are
\* what they were when the call was made.
C6_FailedCreateLeavesNothing ==
    [][(Returns("createList") /\ ~resp'.ok) =>
          IF resp'.stage = "rollback"
          THEN lists' = txn.lists /\ idents' = txn.idents
          ELSE lists' = lists /\ idents' = idents]_vars

\* a createList failed after its list row and one identifier row were written,
\* beside a list that was there before; none of its rows is left
C6_Witness ==
    /\ resp.op = "createList"
    /\ ~resp.ok
    /\ resp.stage = "rollback"
    /\ resp.inserted = 1
    /\ resp.id \notin DOMAIN lists
    /\ lists # Empty
    /\ \A h \in DOMAIN idents : idents[h].list_id # resp.id

\* the list a createList in progress is creating, when its id was free at BEGIN
Creating == IF cl.pc # "idle" /\ cl.data.id \notin DOMAIN txn.lists THEN {cl.data.id} ELSE {}

\* C7: while a createList is between its BEGIN and its COMMIT or ROLLBACK, a
\* concurrent getList or findAdvertisersForIdentifier sees the new list row or
\* one of its identifiers only if the list with all of its identifiers is
\* visible.
C7_NoPartialList ==
    /\ resp.op = "getList" /\ resp.id \in Creating /\ resp.list.found
          => {cl.data.identifiers[i] : i \in 1..Len(cl.data.identifiers)}
                 \subseteq resp.list.identifiers
    /\ Looked /\ resp.result.suppressed # {}
          => \A h \in DOMAIN idents :
                (/\ idents[h].list_id \in Creating
                 /\ idents[h].identifier = resp.identifier
                 /\ idents[h].identifier_type = resp.identifier_type)
                => \A i \in 1..Len(cl.data.identifiers) :
                      hashIdentifier(cl.data.identifiers[i]) \in DOMAIN idents

\* C8: deleteList(id) removes the list row and every identifier record whose
\* list_id is id and returns true; when no list has that id it returns false
\* and changes nothing.
C8_DeleteCascades ==
    [][Returns("deleteList") =>
          IF resp'.id \in DOMAIN lists
          THEN /\ resp'.result
               /\ resp'.id \notin DOMAIN lists'
               /\ \A h \in DOMAIN idents' : idents'[h].list_id # resp'.id
          ELSE /\ ~resp'.result
               /\ lists' = lists
               /\ idents' = idents]_vars

\* C9: when suppression resolution fails because the store cannot be reached
\* or is not initialized, serveAdWithSuppression still answers: the ad
\* server's decision for an empty suppress_advertisers list, with the
\* fallback suppression result.
C9_FallbackOnStoreFailure ==
    (resp.op = "serveAdWithSuppression" /\ ~initialized) =>
        /\ ~resp.rejected
        /\ resp.suppressionResult = FallbackResult
        /\ \E draw \in DrawsAt(resp.placementId, [suppress_advertisers |-> Array({})]) :
              resp.adResponse =
                  serveAd(resp.placementId, [suppress_advertisers |-> Array({})], draw)

\* a checkUserSuppression that reached its lookups, one of which threw
LookupThrew ==
    /\ resp.op = "checkUserSuppression"
    /\ ~resp.rejected
    /\ resp.faults # {}
    /\ \A i \in 1..Len(resp.result.details) :
          resp.result.details[i] # <<"Result served from cache">>

\* C10: if the lookup for one identifier type throws during
\* checkUserSuppression, the call still returns: the lookups of the other
\* types are made, their advertisers are in the merged set, and details has an
\* entry naming the type that failed.
C10_PartialFailure ==
    LookupThrew =>
        /\ \A t \in resp.faults :
              \E i \in 1..Len(resp.result.details) :
                  resp.result.details[i] = <<"Error checking", t>>
        /\ \A t \in IdentifierTypes \ resp.faults :
              \A i \in Carried(resp.userIdentifiers, t) :
                  findAdvertisersForIdentifierOn(lists, idents, i, t).suppressed
                      \subseteq resp.result.suppressedAdvertisers

\* the e-mail lookup threw first, and the device lookup that followed still
\* put its advertiser into the set
C10_Witness ==
    /\ LookupThrew
    /\ resp.userIdentifiers = <<<<"email_hash", "hex64">>, <<"device_id", "uuid">>>>
    /\ resp.faults = {"email_hash"}
    /\ resp.result.suppressedAdvertisers = {"adv_b"}
    /\ resp.result.details = <<<<"Error checking", "email_hash">>, <<"device_id", "matched", 1>>>>

\* the suppression result a request got, from either entry point
Checked == resp.op = "checkUserSuppression" /\ ~resp.rejected
Resolution == IF Checked THEN resp.result ELSE resp.suppressionResult
Resolved == Checked \/ (Served /\ resp.path = "normal")
\* the request was answered from the cache
CacheHit ==
    /\ Resolved
    /\ Resolution.details # <<>>
    /\ Resolution.details[1] = <<"Result served from cache">>

\* C11: a result that disagrees with the store is returned for at most the
\* cache TTL of 5 minutes: no cache entry older than the TTL is served to a
\* request.
C11_NoEntryPastTTL ==
    CacheHit => now - cache[generateCacheKey(resp.userIdentifiers)].timestamp <= maxAge

\* C12: every cache entry has at least one suppressed advertiser; a check
\* that resolves to the empty set leaves the cache unchanged and leaves no
\* entry under its key, so an identical later check is resolved from the
\* store again.
C12_OnlyNonEmptyCached ==
    /\ [](\A k \in DOMAIN cache : cache[k].suppressedAdvertisers # {})
    /\ [][(resp.op = "none" /\ Resolved' /\ Resolution'.suppressedAdvertisers = {}) =>
             /\ cache' = cache
             /\ generateCacheKey(resp'.userIdentifiers) \notin DOMAIN cache']_vars

\* a check of an identifier that is in no list came back empty while the
\* cache holds the entry of an earlier check
C12_Witness ==
    /\ Checked
    /\ resp.result.suppressedAdvertisers = {}
    /\ resp.userIdentifiers = <<<<"email_hash", "hex64">>, <<"device_id", NoValue>>>>
    /\ cache # Empty
    /\ generateCacheKey(resp.userIdentifiers) \notin DOMAIN cache

\* the non-empty type-to-value pairs of an identifier mapping
Pairs(u) == {<<u[i][1], u[i][2]>> : i \in {j \in 1..Len(u) : u[j][2] # NoValue}}
\* the identifier types by name
TypeOrder == <<"cookie_id", "device_id", "email_hash">>
\* the pairs of the types in an order, each written type:value, '|' between them
RECURSIVE Written(_, _)
Written(pairs, types) ==
    IF types = <<>> THEN <<>>
    ELSE LET here == {p \in pairs : p[1] = Head(types)}
             rest == Written(pairs, Tail(types))
         IN  IF here = {} THEN rest
             ELSE LET p == CHOOSE q \in here : TRUE
                  IN  <<p[1], ":">> \o Pieces(p[2]) \o
                      (IF rest = <<>> THEN <<>> ELSE <<"|">> \o rest)

\* C13: generateCacheKey gives one key to any two mappings with the same
\* non-empty type-to-value pairs, whatever the property order and whatever
\* keys with empty values they have besides; the key is the pairs sorted by
\* type name, each written type:value, joined with '|'.
C13_CanonicalKey ==
    resp.op = "generateCacheKey" =>
        /\ Pairs(resp.first) = Pairs(resp.second) => resp.keyFirst = resp.keySecond
        /\ resp.keyFirst = Written(Pairs(resp.first), TypeOrder)

\* two mappings that list the same two pairs in opposite orders, one of them
\* with an empty cookie_id between
C13_Witness ==
    /\ resp.op = "generateCacheKey"
    /\ resp.first = <<<<"email_hash", "hex64">>, <<"device_id", "uuid">>>>
    /\ resp.second = <<<<"device_id", "uuid">>, <<"cookie_id", NoValue>>, <<"email_hash", "hex64">>>>
    /\ resp.keyFirst = resp.keySecond
    /\ resp.keyFirst = <<"device_id", ":", "uuid", "|", "email_hash", ":", "hex64">>

\* the store holds no row of an active list for any identifier the request
\* carries, and no active list was created with one
InNoActiveList(userIdentifiers) ==
    \A t \in IdentifierTypes : \A i \in Carried(userIdentifiers, t) :
        /\ ActiveListsWith(i, t) = {}
        /\ findAdvertisersForIdentifierOn(lists, idents, i, t).suppressed = {}

\* C14: for a request whose identifiers are in no active list, after any
\* earlier sequence of operations, checkUserSuppression returns an empty
\* suppressed set and serveAdWithSuppression returns exactly the decision the
\* ad server makes with suppress_advertisers = [], with no override.
C14_UnlistedUserUnaffected ==
    /\ (Checked /\ InNoActiveList(resp.userIdentifiers)) =>
           resp.result.suppressedAdvertisers = {}
    /\ (Served /\ InNoActiveList(resp.userIdentifiers)) =>
           /\ resp.suppressionResult.suppressedAdvertisers = {}
           /\ \E draw \in DrawsAt(resp.placementId, [suppress_advertisers |-> Array({})]) :
                 resp.adResponse = serveAd(resp.placementId,
                                           [suppress_advertisers |-> Array({})], draw)

\* a request returns to its caller in this step
Requested ==
    /\ resp.op = "none"
    /\ resp'.op \in {"checkUserSuppression", "serveAdWithSuppression"}

\* C15: a request that arrives while the initialization the constructor
\* started is still in flight does not start a second initialization: it
\* neither sets the flag itself nor replaces the manager and its store, so
\* the lists loaded so far stay in the one open database.
C15_NoSecondInitialization ==
    [][(Requested /\ init_pc \in {"open", "load"}) =>
          /\ initialized' = initialized
          /\ db_open' = db_open
          /\ <<lists, idents, passed, txn, cl>>' = <<lists, idents, passed, txn, cl>>]_vars

\* the banners a placement allows that some advertiser has
AllowedAt(placementId) ==
    IF placementId \in DOMAIN placements
    THEN {Banners[b] : b \in {placements[placementId][i] : i \in 1..Len(placements[placementId])}
                              \cap DOMAIN Banners}
    ELSE {}
\* a banner's rules against a request: every include key is present and
\* strictly equal, no exclude key is equal or contained
Passes(banner, customParams) ==
    /\ \A k \in DOMAIN banner.includeParams :
          /\ k \in DOMAIN customParams
          /\ customParams[k] = Scalar(banner.includeParams[k])
    /\ ~\E k \in DOMAIN banner.excludeParams \cap DOMAIN customParams :
          \/ customParams[k] = Scalar(banner.excludeParams[k])
          \/ customParams[k].array /\ banner.excludeParams[k] \in customParams[k].val

\* C16: whenever a banner allowed for the placement passes targeting, serveAd
\* returns served = true with a banner that is allowed for the placement and
\* passes every include and exclude rule; the selection returns a member of
\* a non-empty pool for every draw, and for a total weight of zero it is the
\* survivor the uniform draw points at, never a failed selection.
C16_ServesTargetedBanner ==
    /\ (/\ resp.op = "serveAd"
        /\ \E b \in AllowedAt(resp.placementId) : Passes(b, resp.customParams))
       => /\ resp.response.served
          /\ \E b \in AllowedAt(resp.placementId) :
                /\ Passes(b, resp.customParams)
                /\ resp.response.bannerId = b.id
                /\ resp.response.advertiserId = b.advertiserId
    /\ (resp.op = "selectBannerWeighted" /\ resp.eligibleBanners # <<>>)
       => /\ \E i \in 1..Len(resp.eligibleBanners) : resp.selected = resp.eligibleBanners[i]
          /\ SumWeights(resp.eligibleBanners) = 0
                => resp.selected = resp.eligibleBanners[resp.draw]

\* pl_mix allows a banner nobody has and three known ones; the adv_b banner
\* with the exclude rule is out, and the one with the include rule was served
C16_Witness ==
    /\ resp.op = "serveAd"
    /\ resp.placementId = "pl_mix"
    /\ resp.customParams = [user_segment |-> Scalar("tech_enthusiast"),
                            suppress_advertisers |-> Array({"adv_b"})]
    /\ resp.response.served
    /\ resp.response.bannerId = "bn_b_seg"

\* the cumulative weight before the banner at an index
WeightBefore(banners, i) == SumWeights(SubSeq(banners, 1, i - 1))

C18_TargetingRules ==
    resp.op = "checkTargetingRules" =>
        /\ resp.result.isEligible = Passes(resp.banner, resp.customParams)
        /\ ~resp.result.isEligible =>
              \/ /\ resp.result.reason[1] = "Include rule failed"
                 /\ resp.result.reason[2] \in DOMAIN resp.banner.includeParams
                 /\ ~Passes([resp.banner EXCEPT !.excludeParams = Empty,
                                 !.includeParams = [k \in {resp.result.reason[2]} |-> @[k]]],
                            resp.customParams)
              \/ /\ resp.result.reason[1] = "Exclude rule matched"
                 /\ resp.result.reason[2] \in DOMAIN resp.banner.excludeParams
                 /\ ~Passes([resp.banner EXCEPT !.includeParams = Empty,
                                 !.excludeParams = [k \in {resp.result.reason[2]} |-> @[k]]],
                            resp.customParams)

\* the include rule of a banner is met and its exclude rule matches an array
C18_Witness ==
    /\ resp.op = "checkTargetingRules"
    /\ resp.banner.id = "bn_b_both"
    /\ resp.customParams = [user_segment |-> Scalar("tech_enthusiast"),
                            suppress_advertisers |-> Array({"adv_a", "adv_b"})]
    /\ resp.result = [isEligible |-> FALSE,
                      reason |-> <<"Exclude rule matched", "suppress_advertisers", "contains">>]

\* C19: serveAd answers 'No banners configured for placement <id>' exactly
\* when the placement has no known allowed banner, and 'No banners passed
\* targeting rules' exactly when it has some and none passes; both come with
\* served = false and no bannerId or advertiserId.
C19_NotServedReasons ==
    resp.op = "serveAd" =>
        /\ resp.response.reason = <<"No banners configured for placement", resp.placementId>>
              <=> AllowedAt(resp.placementId) = {}
        /\ resp.response.reason = <<"No banners passed targeting rules">>
              <=> /\ AllowedAt(resp.placementId) # {}
                  /\ \A b \in AllowedAt(resp.placementId) : ~Passes(b, resp.customParams)
        /\ resp.response.reason[1] \in {"No banners configured for placement",
                                        "No banners passed targeting rules"}
              => /\ ~resp.response.served
                 /\ resp.response.bannerId = NoValue
                 /\ resp.response.advertiserId = NoValue

\* a placement whose only allowed banner is one no advertiser has
C19_Witness ==
    /\ resp.op = "serveAd"
    /\ resp.placementId = "pl_ghost"
    /\ resp.response = NotServed(<<"No banners configured for placement", "pl_ghost">>)

\* the keys an update object has (NoValue and -1 stand for an absent key)
Supplied(u) ==
    {f \in DOMAIN u : IF f = "last_updated" THEN u[f] # -1 ELSE u[f] # NoValue}

\* C20: updateList changes only the fields supplied among name, description
\* and last_updated, which take the supplied values; every other column of
\* the list, every other list and all identifier rows stay as they were even
\* when the caller supplies them; a call that supplies none of the three
\* throws and changes nothing.
C20_UpdateFrame ==
    [][Returns("updateList") =>
          LET u == resp'.updates
              mutable == Supplied(u) \cap {"name", "description", "last_updated"}
          IN  /\ idents' = idents
              /\ DOMAIN lists' = DOMAIN lists
              /\ \A l \in DOMAIN lists :
                    /\ DOMAIN lists'[l] = DOMAIN lists[l]
                    /\ \A f \in DOMAIN lists[l] :
                          lists'[l][f] = IF l = resp'.id /\ f \in mutable
                                         THEN u[f] ELSE lists[l][f]
              /\ resp'.ok <=> mutable # {}
              /\ ~resp'.ok => <<lists, idents, passed, txn, cl>>' = <<lists, idents, passed, txn, cl>>]_vars

\* an update that supplied a new name and a new owner: the name changed, the
\* owner did not
C20_Witness ==
    /\ resp.op = "updateList"
    /\ resp.ok
    /\ resp.updates.name = "n2"
    /\ resp.updates.advertiser_id = "adv_b"
    /\ resp.list.found
    /\ resp.list.row.name = "n2"
    /\ resp.list.row.advertiser_id = "adv_a"
    /\ lists[resp.id].advertiser_id = "adv_a"

\* the values of an array
Values(array) == {array[i] : i \in 1..Len(array)}

\* C21: the list a successful createList returns (its closing getList) has
\* the metadata that was passed and exactly the identifier values that were
\* passed, whatever other lists already exist; getList of an id that is not
\* stored returns null.
C21_GetListRoundTrip ==
    /\ []((resp.op = "getList" /\ resp.id \notin DOMAIN lists) => ~resp.list.found)
    /\ [][(cl.pc = "commit" /\ resp'.op = "createList") =>
             /\ resp'.ok
             /\ resp'.list.found
             /\ resp'.list.row.advertiser_id = cl.data.advertiser_id
             /\ resp'.list.row.identifier_type = cl.data.identifier_type
             /\ resp'.list.row.last_updated = cl.data.last_updated
             /\ resp'.list.row.size = Len(cl.data.identifiers)
             /\ resp'.list.identifiers = Values(cl.data.identifiers)]_vars

\* C22: an insert of an identifier that is already stored changes no
\* identifier record (the stored one keeps its list, its advertiser and its
\* time), and the createList that attempted it does not fail because of it:
\* its error, if it has one, is not a uniqueness error of the identifiers.
C22_DuplicateInsertIgnored ==
    /\ [][(/\ cl.pc = "insert_ids"
           /\ hashIdentifier(cl.data.identifiers[cl.k]) \in DOMAIN idents)
          => /\ idents' = idents
             /\ cl'.pc = "rollback" =>
                   cl'.error \in {"SQLITE_ERROR", "FOREIGN KEY constraint failed"}]_vars
    /\ []((resp.op = "createList" /\ ~resp.ok /\ resp.stage = "rollback") =>
             resp.error # "UNIQUE constraint failed: suppression_identifiers.identifier_hash")

\* L2 was created with an identifier L1 had stored: the call succeeded and
\* the record still belongs to L1
C22_Witness ==
    /\ resp.op = "createList"
    /\ resp.ok
    /\ resp.id = "L2"
    /\ "hex64" \in passed["L2"].identifiers
    /\ hashIdentifier("hex64") \in DOMAIN idents
    /\ idents[hashIdentifier("hex64")].list_id = "L1"
    /\ idents[hashIdentifier("hex64")].advertiser_id = "adv_a"
    /\ passed["L2"].advertiser_id = "adv_b"

\* the identifiers of each type that have a shape the contract accepts, read
\* off their spelling: 50 to 70 letters and digits or local@domain.tld for
\* email_hash; hex digits and hyphens, a UUID or iosdevice-<hex> for device_id
ContractAccepts ==
    [email_hash |-> {"hex64", "hex50", "hex70", "HEX64", "alnum64",
                     "user@example.com", "a@b.c", "a@b..c"},
     device_id |-> {"hex64", "hex49", "hex50", "hex70", "hex71", "HEX64", "uuid", "UUID",
                    "abc-123", "-", "iosdevice-1a2b", "IOSDEVICE-1A2B"}]

\* C23: createList's checks accept a call exactly when its identifier type
\* is email_hash or device_id and every identifier has a shape accepted for
\* that type; a rejection names the offending value: the unrecognized type,
\* or an identifier of the array whose shape is not accepted.
C23_ValidationShapes ==
    resp.op = "createList.validate" =>
        /\ resp.error = NoError
              <=> /\ resp.identifierType \in DOMAIN ContractAccepts
                  /\ Values(resp.identifiers) \subseteq ContractAccepts[resp.identifierType]
        /\ (resp.error # NoError /\ resp.identifierType \notin DOMAIN ContractAccepts)
              => resp.error = <<"Invalid identifier type", resp.identifierType>>
        /\ (resp.error # NoError /\ resp.identifierType \in DOMAIN ContractAccepts)
              => /\ resp.error[1] = IF resp.identifierType = "email_hash"
                                    THEN "Invalid email_hash format"
                                    ELSE "Invalid device_id format"
                 /\ resp.error[2] \in Values(resp.identifiers)
                                        \ ContractAccepts[resp.identifierType]

\* a hash of 64 characters passed, the one with an underscore was named
C23_Witness ==
    /\ resp.op = "createList.validate"
    /\ resp.identifierType = "email_hash"
    /\ resp.identifiers = <<"hex64", "hex63_">>
    /\ resp.error = <<"Invalid email_hash format", "hex63_">>

\* C24: with deduplicate enabled, every list an import created holds at most
\* one identifier of each normalized form, and it is the first one the file
\* has for that list.
C24_ImportDeduplicates ==
    (resp.op = "importFromCSV" /\ resp.deduplicate) =>
        \A n \in 1..Len(resp.created) :
            LET l == resp.created[n]
                held == IdentifiersOf(idents, l)
                t == lists[l].identifier_type
            IN  /\ \A x, y \in held :
                      normalizeIdentifier(x, t) = normalizeIdentifier(y, t) => x = y
                /\ \A x \in held :
                      \A i, j \in 1..Len(resp.rows) :
                          (/\ resp.rows[j].identifier = x
                           /\ resp.rows[i].identifier_type = t
                           /\ resp.rows[j].identifier_type = t
                           /\ normalizeIdentifier(resp.rows[i].identifier, t)
                                 = normalizeIdentifier(x, t)
                           /\ resp.validate =>
                                 validateIdentifier(resp.rows[i].identifier, t))
                          => \E k \in 1..i : resp.rows[k].identifier = x

\* C25: getListsByAdvertiser returns each list of the advertiser once and no
\* list of another advertiser, only active lists unless active_only is
\* false, only lists of identifier_type when it is given, newest
\* last_updated first, each with its row and its own identifiers, those it
\* was created with.
C25_ListsOfAdvertiser ==
    resp.op = "getListsByAdvertiser" =>
        /\ {resp.lists[i].id : i \in DOMAIN resp.lists} =
              {l \in DOMAIN lists :
                  /\ lists[l].advertiser_id = resp.advertiserId
                  /\ resp.options.active_only => lists[l].is_active
                  /\ resp.options.identifier_type # NoValue =>
                         lists[l].identifier_type = resp.options.identifier_type}
        /\ \A i, j \in DOMAIN resp.lists :
              i < j => /\ resp.lists[i].id # resp.lists[j].id
                       /\ resp.lists[i].row.last_updated >= resp.lists[j].row.last_updated
        /\ \A i \in DOMAIN resp.lists :
              /\ resp.lists[i].row = lists[resp.lists[i].id]
              /\ resp.lists[i].identifiers = passed[resp.lists[i].id].identifiers

\* C26: every completed checkUserSuppression call, one answered from the
\* cache included, raises stats.totalRequests by one and moves
\* stats.averageLookupTime to (avg*(n-1) + new)/n, so that after n calls the
\* counter is n and the average is the mean of the n processing times.
C26_StatsCountEveryCheck ==
    /\ [](calls = 0 => stats.totalRequests = 0)
    /\ [][(resp.op = "none" /\ resp'.op = "checkUserSuppression" /\ ~resp'.rejected) =>
            /\ stats'.totalRequests = stats.totalRequests + 1
            /\ stats'.averageLookupTime.num * stats.averageLookupTime.den * stats'.totalRequests =
                  (stats.averageLookupTime.num * stats.totalRequests
                      + resp'.processingTime * stats.averageLookupTime.den)
                  * stats'.averageLookupTime.den]_vars

\* C27: once the initialization has finished with at least one list in the
\* store, getSuppressionStats reports total_lists_loaded > 0.
C27_ListsLoadedReported ==
    (resp.op = "getSuppressionStats" /\ resp.initialized /\ DOMAIN lists # {}) =>
        resp.total_lists_loaded > 0

\* C28: of the calls RateLimiter.check gets for one advertiser and one
\* operation within one minute, the first `limit` (10 for list_creation) are
\* allowed, with remaining counting down to 0, and every further one is
\* turned away with remaining 0.
C28_FirstLimitCallsAllowed ==
    resp.op = "RateLimiter.check" =>
        LET n == asked[<<resp.advertiserId, resp.operation, getCurrentMinute(now)>>]
            limit == IF resp.operation = <<"list", "creation">> THEN 10
                     ELSE IF resp.operation \in DOMAIN limits THEN limits[resp.operation]
                     ELSE 10
        IN  /\ ~resp.threw
            /\ resp.allowed = (n <= limit)
            /\ resp.remaining = IF n <= limit THEN limit - n ELSE 0

\* C29: applyExpirationPolicy retires exactly the active lists whose
\* last_updated lies before the cutoff and returns how many they are, changes
\* no other list, no other column and no identifier row, and leaves a store in
\* which getExpiredLists, which reports the active lists before its cutoff,
\* finds none for that cutoff.
C29_ExpirationPolicy ==
    /\ [][(resp.op = "none" /\ resp'.op = "applyExpirationPolicy") =>
            LET old == {l \in DOMAIN lists :
                           lists[l].is_active /\ lists[l].last_updated < resp'.cutoff}
            IN  /\ DOMAIN lists' = DOMAIN lists
                /\ \A l \in old : lists'[l] = [lists[l] EXCEPT !.is_active = FALSE]
                /\ \A l \in DOMAIN lists \ old : lists'[l] = lists[l]
                /\ resp'.changes = Cardinality(old)
                /\ idents' = idents
                /\ ~\E l \in DOMAIN lists' :
                        lists'[l].is_active /\ lists'[l].last_updated < resp'.cutoff]_vars
    /\ [](resp.op = "getExpiredLists" =>
            {r.id : r \in resp.rows} =
                {l \in DOMAIN lists : lists[l].is_active /\ lists[l].last_updated < resp.cutoff})

\* the policy has retired one of two lists, the older one, and the identifier
\* rows of both are still there
C29_Witness ==
    /\ resp.op = "applyExpirationPolicy"
    /\ resp.changes = 1
    /\ \E k, l \in DOMAIN lists :
          /\ ~lists[k].is_active /\ lists[k].last_updated < resp.cutoff
          /\ lists[l].is_active /\ lists[l].last_updated >= resp.cutoff
          /\ IdentifiersOf(idents, k) # {}

\* does the request carry, for the type of list l, an identifier that l was
\* created with
Listed(userIdentifiers, l) ==
    /\ l \in DOMAIN lists
    /\ \E i \in 1..Len(userIdentifiers) :
          /\ userIdentifiers[i][2] # NoValue
          /\ userIdentifiers[i][1] = lists[l].identifier_type
          /\ userIdentifiers[i][2] \in passed[l].identifiers

\* C30: checkCombinedSuppression reports suppressed under OR exactly when
\* one of the listed lists contains the user's identifier of its type, under
\* AND exactly when all of them do, a missing list counting as no match, and
\* never for an empty listIds.
C30_CombinedSuppression ==
    resp.op = "checkCombinedSuppression" =>
        LET listIds == resp.logicConfig.listIds
            hits == {i \in 1..Len(listIds) : Listed(resp.userIdentifiers, listIds[i])}
        IN  /\ Len(listIds) = 0 => ~resp.suppressed
            /\ (Len(listIds) > 0 /\ resp.logicConfig.operator \in {NoValue, "OR"}) =>
                   (resp.suppressed <=> hits # {})
            /\ (Len(listIds) > 0 /\ resp.logicConfig.operator = "AND") =>
                   (resp.suppressed <=> hits = 1..Len(listIds))

\* C31: when the ad server serves a banner of a suppressed advertiser, the
\* response that goes out has served = false, no bannerId, creativeUrl or
\* landingPage, the advertiserId of that banner and the reason 'Advertiser
\* <id> suppressed by Falcon'; in every other case it is the ad server's
\* response, field for field.
C31_OverrideFrame ==
    (Served /\ resp.path = "normal") =>
        IF /\ resp.adServerResponse.served
           /\ resp.adServerResponse.advertiserId \in
                  resp.suppressionResult.suppressedAdvertisers
        THEN /\ DOMAIN resp.adResponse = DOMAIN resp.adServerResponse
             /\ ~resp.adResponse.served
             /\ resp.adResponse.bannerId = NoValue
             /\ resp.adResponse.creativeUrl = NoValue
             /\ resp.adResponse.landingPage = NoValue
             /\ resp.adResponse.advertiserId = resp.adServerResponse.advertiserId
             /\ resp.adResponse.reason =
                    <<"Advertiser", resp.adServerResponse.advertiserId, "suppressed by Falcon">>
        ELSE resp.adResponse = resp.adServerResponse

\* the ad server served a banner of adv_a with its creative, adv_a is
\* suppressed, and the response went out overridden
C31_Witness ==
    /\ Served
    /\ resp.path = "normal"
    /\ resp.adServerResponse.served
    /\ resp.adServerResponse.creativeUrl # NoValue
    /\ resp.adServerResponse.advertiserId \in resp.suppressionResult.suppressedAdvertisers
    /\ ~resp.adResponse.served

\* the canonical key of the request a resolution answered
KeyOf(userIdentifiers) == Written(Pairs(userIdentifiers), TypeOrder)

\* C32: a check that returns a non-empty set S leaves S in the cache under
\* the canonical key of its identifiers, and a check whose non-empty pairs
\* have an entry under their canonical key, whatever the order of its keys,
\* returns that entry's set and listsChecked with 'Result served from cache'
\* as first detail, increments cacheHits and looks nothing up in the store.
C32_CachedResultServed ==
    /\ []((Resolved /\ Resolution.suppressedAdvertisers # {}) =>
            /\ KeyOf(resp.userIdentifiers) \in DOMAIN cache
            /\ cache[KeyOf(resp.userIdentifiers)].suppressedAdvertisers =
                   Resolution.suppressedAdvertisers
            /\ cache[KeyOf(resp.userIdentifiers)].listsChecked = Resolution.listsChecked)
    /\ [][(resp.op = "none" /\ Resolved' /\ KeyOf(resp'.userIdentifiers) \in DOMAIN cache) =>
            LET entry == cache[KeyOf(resp'.userIdentifiers)]
            IN  /\ Resolution'.suppressedAdvertisers = entry.suppressedAdvertisers
                /\ Resolution'.listsChecked = entry.listsChecked
                /\ Resolution'.details[1] = <<"Result served from cache">>
                /\ cacheHits' = cacheHits + 1
                /\ cacheMisses' = cacheMisses
                /\ resp'.lookups = {}]_vars

\* a request with its keys in the other order was answered from the cache,
\* for the second time
C32_Witness ==
    /\ Checked
    /\ CacheHit
    /\ cacheHits = 2
    /\ resp.userIdentifiers = <<<<"device_id", "uuid">>, <<"email_hash", "hex64">>>>
    /\ resp.result.suppressedAdvertisers # {}
    /\ resp.lookups = {}

\* the entries of a cache that are older than five minutes at time t
OlderThanFiveMinutes(c, t) == {k \in DOMAIN c : t - c[k].timestamp > 5 * 60 * 1000}

\* C33: entries leave the cache only in a step that writes a result and
\* leaves more than 10,000 entries, and such a step removes every entry older
\* than five minutes and no other entry.
C33_CleanupOnlyAboveCeiling ==
    [][LET key == KeyOf(resp'.userIdentifiers)
           written == DOMAIN cache \cup {key}
           writes == /\ resp.op = "none"
                     /\ Resolved'
                     /\ ~CacheHit'
                     /\ Resolution'.suppressedAdvertisers # {}
       IN  IF writes /\ Cardinality(written) > 10000
           THEN /\ DOMAIN cache' =
                       written \ (OlderThanFiveMinutes(cache, now) \ {key})
                /\ \A k \in (DOMAIN cache \cap DOMAIN cache') \ {key} :
                       cache'[k] = cache[k]
           ELSE DOMAIN cache \subseteq DOMAIN cache']_vars

\* a write took the cache over the ceiling and the sweep removed the old
\* half of the entries, while those exactly five minutes old are still there
C33_Witness ==
    /\ Checked
    /\ ~CacheHit
    /\ <<"cookie_id", ":", 2>> \notin DOMAIN cache
    /\ <<"cookie_id", ":", 1>> \in DOMAIN cache
    /\ now - cache[<<"cookie_id", ":", 1>>].timestamp = maxAge
    /\ KeyOf(resp.userIdentifiers) \in DOMAIN cache
\* the identifier records a list owns
Owned(listId) == {h \in DOMAIN idents : idents[h].list_id = listId}

\* C34: between calls, every list's stored size is the number of identifier
\* records it owns, and getStats reports as total_identifiers the number of
\* identifier records the active lists own.
C34_SizeIsOwnedRecords ==
    /\ cl.pc = "idle" => \A l \in DOMAIN lists : lists[l].size = Cardinality(Owned(l))
    /\ resp.op = "getStats" =>
           resp.total_identifiers =
               <<Cardinality(UNION {Owned(l) : l \in {x \in DOMAIN lists : lists[x].is_active}})>>

\* C35: an identifier type whose value is empty is skipped: a check that goes
\* to the store looks up no such type, reports nothing about it, suppresses
\* only advertisers found for the non-empty pairs, and no cache key carries an
\* empty value; a request without any non-empty identifier gets the empty set
\* with listsChecked 0, and nothing is cached for it.
C35_EmptyIdentifiersSkipped ==
    /\ \A k \in DOMAIN cache : k # <<>> /\ \A i \in 1..Len(k) : k[i] # NoValue
    /\ (Checked /\ ~CacheHit) =>
          LET u == resp.userIdentifiers
              empty == {u[i][1] : i \in {j \in 1..Len(u) : u[j][2] = NoValue}}
              details == resp.result.details
          IN  /\ resp.lookups \cap empty = {}
              /\ \A i \in 1..Len(details) :
                     /\ details[i][1] \notin empty
                     /\ Len(details[i]) = 2 => details[i][2] \notin empty
              /\ resp.result.suppressedAdvertisers \subseteq
                     UNION {findAdvertisersForIdentifierOn(lists, idents, p[2], p[1]).suppressed :
                                p \in Pairs(u)}
              /\ resp.result.suppressedAdvertisers # {} => KeyOf(u) \in DOMAIN cache
              /\ Pairs(u) = {} => /\ resp.result.suppressedAdvertisers = {}
                                  /\ resp.result.listsChecked = 0
                                  /\ resp.lookups = {}

\* a request with one empty and one matching identifier was resolved and cached
C35_Witness ==
    /\ Checked /\ ~CacheHit
    /\ Len(resp.userIdentifiers) = 2
    /\ Cardinality(Pairs(resp.userIdentifiers)) = 1
    /\ resp.result.suppressedAdvertisers # {}
    /\ resp.lookups # {}
    /\ KeyOf(resp.userIdentifiers) \in DOMAIN cache

\* C36: no cache entry comes from a resolution in which a per-type lookup
\* failed: no entry records a failed lookup, and a check in which a lookup
\* failed leaves nothing in the cache under its key.
C36_OnlyCompleteResultsCached ==
    /\ \A k \in DOMAIN cache :
           \A i \in 1..Len(cache[k].details) : cache[k].details[i][1] # "Error checking"
    /\ (Checked /\ ~CacheHit /\ resp.faults \cap resp.lookups # {}) =>
           KeyOf(resp.userIdentifiers) \notin DOMAIN cache

\* C37: generateCacheKey gives different keys to any two mappings whose sets
\* of non-empty type-to-value pairs differ, values that contain ':' or '|'
\* included.
C37_KeyInjective ==
    (resp.op = "generateCacheKey" /\ Pairs(resp.first) # Pairs(resp.second)) =>
        resp.keyFirst # resp.keySecond

\* C38: what deleteList and updateList did stays done: the ROLLBACK of a
\* createList changes no list other than the one that createList was creating,
\* so a list deleted or updated while the transaction was open stays deleted
\* or updated.
C38_RollbackSparesOtherLists ==
    [][(cl.pc = "rollback" /\ cl'.pc = "idle") =>
          \A l \in ListIds \ {cl.data.id} :
              /\ l \in DOMAIN lists' <=> l \in DOMAIN lists
              /\ l \in DOMAIN lists => lists'[l] = lists[l]]_vars

\* C39: a createList with valid data and an id of its own, called while
\* another createList is under way, does not fail for that reason: no such call
\* is refused at its BEGIN TRANSACTION.
C39_ConcurrentCreatesSucceed ==
    ~ /\ resp.op = "createList"
      /\ ~resp.ok
      /\ resp.stage = "begin"
      /\ cl.pc # "idle"
      /\ resp.id # cl.data.id
      /\ resp.id \notin DOMAIN lists

====
